---- MODULE Spec2Model ----
(***************************************************************************)
(* Model of the multi-transport connection and delivery layer of          *)
(* src/app.js (class EmergencyMeshChat).                                   *)
(*                                                                         *)
(* SpecDirect     one application instance: the registries, the direct     *)
(*                (WebRTC) connection handles and the quality probe.       *)
(* SpecBluetooth  one application instance: the registries and the         *)
(*                constrained (Bluetooth) devices it connects to.          *)
(* SpecFanout     the broadcasts of one instance, with connections coming  *)
(*                and going while a broadcast is in progress.              *)
(* SpecCodec      writeBluetoothMessage on one characteristic, with a      *)
(*                clock.                                                   *)
(* SpecStart      page load, startAutoDiscovery and the timers it sets.    *)
(* SpecPair       two application instances joined by direct connections.  *)
(* SpecSend       the three send operations, with the event history kept.  *)
(* SpecFallback   the scans scheduled after a failure.                     *)
(* SpecPeriodic   the periodic rediscovery and the periodic probe.         *)
(* SpecDeliver    a broadcast whose constrained writes go frame by frame.  *)
(* SpecRecover    the handlers that meet a throwing send or a bad payload. *)
(* SpecLocate     sendEmergencyAlert and the geolocation collaborator,     *)
(*                with fairness.                                           *)
(* SpecServer     the emergencies server of src/unnamed/part_000.          *)
(* SpecReceive    writeBluetoothMessage on one characteristic and          *)
(*                handleBluetoothMessage at the other end of it.           *)
(* SpecOpen       connections of both transports opening, inbound          *)
(*                messages, and sendMessage.                               *)
(* SpecBoth       connections of both transports opening and closing.      *)
(* SpecScan       the discovery controller with scans that last.           *)
(* SpecDisconnect connections of both transports disconnected by the user. *)
(* SpecOverlap    two overlapping calls of writeBluetoothMessage on one    *)
(*                characteristic.                                          *)
(* SpecConnect    the connect form: connectToPeer with the text of the     *)
(*                remote-peer-id field, this.peer present or absent.       *)
(***************************************************************************)
EXTENDS Integers, Sequences, FiniteSets, TLC

(***************************************************************************)
(* Bounds of the model.                                                    *)
(***************************************************************************)
MaxHandles == 2

\* longest encoded message handed to writeBluetoothMessage, in bytes
MaxLen == 45

\* how far the clock of SpecCodec runs, in ms
MaxTime == 200

\* how far the clock of SpecStart runs, in ms
MaxStartTime == 12000

\* how many times the settings are saved, and the signalling peer reports an
\* error, in a run of SpecStart
MaxSaves == 1

MaxPeerErrors == 1

\* how many times peer.connect throws in a run of SpecFallback
MaxConnectThrows == 1

\* how far the clock of SpecPeriodic runs, in ms
MaxPeriodicTime == 62000

\* how many direct connections the two instances of SpecPair make
MaxLinks == 2

\* how many records the server stores and how far its clock runs, in ms,
\* in a run of SpecServer
MaxRecords == 2

\* how many further calls of writeBluetoothMessage follow the first in a run
\* of SpecReceive
MaxCalls == 1

MaxServerTime == 2

RemotePeers == {"peerB", "peerC"}

Devices == {"dev1", "dev2"}

Handles == 1..MaxHandles

(***************************************************************************)
(* A JavaScript Map: a sequence of key/value entries in insertion order.   *)
(***************************************************************************)
RegKeys(reg) == {reg[i].key : i \in 1..Len(reg)}

RegHas(reg, k) == k \in RegKeys(reg)

RegPos(reg, k) == CHOOSE i \in 1..Len(reg) : reg[i].key = k

RegGet(reg, k) == reg[RegPos(reg, k)].val

\* Map.prototype.set: an existing key keeps its position, a new key is appended
RegSet(reg, k, v) ==
    IF RegHas(reg, k)
    THEN [i \in 1..Len(reg) |-> IF reg[i].key = k THEN [key |-> k, val |-> v] ELSE reg[i]]
    ELSE Append(reg, [key |-> k, val |-> v])

\* Map.prototype.delete: a missing key leaves the map as it is
RegDelete(reg, k) ==
    IF RegHas(reg, k)
    THEN LET p == RegPos(reg, k)
         IN  [i \in 1..(Len(reg) - 1) |-> IF i < p THEN reg[i] ELSE reg[i + 1]]
    ELSE reg

RegSize(reg) == Len(reg)

(***************************************************************************)
(* State of one application instance (constructor, src/app.js:2-22).       *)
(*                                                                         *)
(* hstate, hpeer   the direct transport's DataConnection objects: what the *)
(*                 handle reports (conn.open) and its conn.peer            *)
(* torn            history: a close or error event of the handle has been  *)
(*                 handled since it opened, or it was disconnected         *)
(* connections, bluetoothConnections   the two registries                  *)
(* gatt            device.gatt.connected of each constrained device        *)
(* btpc            where connectBluetoothDevice stands for each device     *)
(* ev              history: the handler that ran last                      *)
(* bc              the broadcast in progress (sendMessage or               *)
(*                 sendEmergencyAlert): where it stands, the count it      *)
(*                 took, its Map iterator, the message it built            *)
(* attempted       history: the connections the broadcast called send on   *)
(* failed          history: "none" while no send of the broadcast has      *)
(*                 failed, "some" once one has, "then" once a send was     *)
(*                 called after a failed one                               *)
(* present         history: the connections registered when the broadcast  *)
(*                 was invoked and not removed since                       *)
(***************************************************************************)
VARIABLES hstate, hpeer, torn, connections, bluetoothConnections, gatt, btpc, ev,
          bc, attempted, failed, present

(***************************************************************************)
(* State of one call of writeBluetoothMessage (SpecCodec).                 *)
(*                                                                         *)
(* wmsg        encodedMessage, a sequence of bytes                         *)
(* wpc         where the call stands                                       *)
(* woff        the loop variable i                                         *)
(* frames      the values handed to characteristic.writeValue, in order    *)
(* writeTimes  history: when each writeValue was called                    *)
(* delays      history: how many pacing timers the call has set            *)
(* now         the clock, in ms                                            *)
(* timerAt     when the pacing timer in progress is due                    *)
(***************************************************************************)
VARIABLES wmsg, wpc, woff, frames, writeTimes, delays, now, timerAt

codecVars == <<wmsg, wpc, woff, frames, writeTimes, delays, now, timerAt>>

connVars == <<hstate, hpeer, torn, connections, bluetoothConnections, gatt, btpc>>

bcVars == <<bc, attempted, failed, present>>

(***************************************************************************)
(* State of the discovery controller (SpecStart).                          *)
(*                                                                         *)
(* started             DOMContentLoaded has been handled                   *)
(* thisPeer            this.peer is set: initializePeer has made the Peer  *)
(* autoConnect         this.autoConnect                                    *)
(* connectionPriority  this.connectionPriority                             *)
(* timers              the pending setTimeout/setInterval callbacks, in    *)
(*                     the order they were set: [what, at]                 *)
(* scanLog             history: the scans started, [kind, by, at]          *)
(* scanEnded           the positions in scanLog of the scans whose call    *)
(*                     has returned                                        *)
(* saves, peerErrors   history: how many times saveSettings and the        *)
(*                     peer's error handler have run                       *)
(***************************************************************************)
VARIABLES started, thisPeer, autoConnect, connectionPriority, timers, scanLog, scanEnded,
          saves, peerErrors

startVars ==
    <<started, thisPeer, autoConnect, connectionPriority, timers, scanLog, scanEnded, saves,
      peerErrors>>

(***************************************************************************)
(* State of two application instances (SpecPair).                          *)
(*                                                                         *)
(* preg   this.connections of each instance                                *)
(* lfrom  the instance that called peer.connect for the link, or "none"    *)
(* lside  the state of each instance's DataConnection of the link          *)
(***************************************************************************)
VARIABLES preg, lfrom, lside

pairVars == <<preg, lfrom, lside>>

(***************************************************************************)
(* State of the emergencies server (SpecServer).                           *)
(*                                                                         *)
(* emergencies  the array in emergencies.json                              *)
(* serverNow    the server's clock, in ms                                  *)
(* req          the request handled last: [op, id, body]                   *)
(* res          the response to it: [code, body]                           *)
(* created      history: the records the POSTs answered with, in order     *)
(***************************************************************************)
VARIABLES emergencies, serverNow, req, res, created

serverVars == <<emergencies, serverNow, req, res, created>>

(***************************************************************************)
(* State of the receiving side of a characteristic (SpecReceive).          *)
(*                                                                         *)
(* delivered  how many of the frames of the call in progress have reached  *)
(*            the receiver's characteristicvaluechanged handler            *)
(* handed     history: the messages the receiver has handed to             *)
(*            displayMessage / displayEmergencyAlert, in order             *)
(* dropped    history: how many frames the receiver's catch has logged     *)
(* calls      history: how many calls of writeBluetoothMessage followed    *)
(*            the first                                                    *)
(* other      a second call of writeBluetoothMessage on the characteristic *)
(*            that runs while the first does (SpecOverlap): its message,   *)
(*            its position, its offset, its pacing timer, and as history   *)
(*            the places in frames of the frames it wrote                  *)
(***************************************************************************)
VARIABLES delivered, handed, dropped, calls, other

rxVars == <<delivered, handed, dropped, calls, other>>

NoOther == [msg |-> <<>>, pc |-> "none", off |-> 0, timerAt |-> 0, at |-> {}]

vars == <<connVars, ev, bcVars, codecVars, startVars, pairVars, serverVars, rxVars>>

\* h is 0, key is "none" and set is {} where the handler has no such argument
Ev(op, h, key) == [op |-> op, h |-> h, key |-> key, set |-> {}, pings |-> {}]

\* a specification that starts with ev.op = "off" keeps no history at all, one
\* that starts with ev.op = "wire" keeps the wire history of a broadcast only
KeepsWire == ev.op # "off"

Recording == ev.op \notin {"off", "wire"}

\* a handler runs: the history of a broadcast that has returned was dropped
\* before, and the handler is noted in ev
Runs(e) ==
    /\ bc.pc # "done"
    /\ ev' = IF Recording THEN e ELSE ev
    /\ UNCHANGED codecVars
    /\ UNCHANGED startVars
    /\ UNCHANGED pairVars
    /\ UNCHANGED serverVars
    /\ UNCHANGED rxVars

MarkTorn(h) == torn' = IF Recording THEN [torn EXCEPT ![h] = TRUE] ELSE torn

\* the direct registry alone
getTotalConnections_Direct == RegSize(connections)

getTotalConnections == RegSize(connections) + RegSize(bluetoothConnections)

FreeHandles == {h \in Handles : hstate[h] = "free"}

\* handles are handed out in order: the next connection is the lowest free one
NextHandle == CHOOSE h \in FreeHandles : \A g \in FreeHandles : h <= g

\* the entries of both registries, as (transport, key, value) triples
Registered ==
    {<<"direct", connections[i].key, connections[i].val>> : i \in 1..Len(connections)}
    \cup {<<"bluetooth", bluetoothConnections[i].key, bluetoothConnections[i].val>> :
             i \in 1..Len(bluetoothConnections)}

\* the history variables after a handler that leaves the broadcast alone
BcFollows ==
    /\ present' = present \cap Registered'
    /\ UNCHANGED <<bc, attempted, failed>>

\* a Map iterator standing at entry idx, after the entry of key k is deleted:
\* the entries behind the deleted one move up by one place
IterAfterDelete(idx, reg, k) ==
    IF RegHas(reg, k) /\ RegPos(reg, k) <= idx THEN idx - 1 ELSE idx

\* the broadcast after a handler that deletes key k of the constrained registry
BcAfterBluetoothDelete(k) ==
    /\ present' = present \cap Registered'
    /\ bc' = [bc EXCEPT !.idx = IterAfterDelete(bc.idx, bluetoothConnections, k)]
    /\ UNCHANGED <<attempted, failed>>

ConnInit ==
    /\ hstate = [h \in Handles |-> "free"]
    /\ hpeer = [h \in Handles |-> "none"]
    /\ torn = [h \in Handles |-> FALSE]
    /\ connections = <<>>
    /\ bluetoothConnections = <<>>
    /\ gatt = [d \in Devices |-> FALSE]
    /\ btpc = [d \in Devices |-> "idle"]

(***************************************************************************)
(* Direct transport: connectToPeer, handleIncomingConnection and the four  *)
(* handlers setupConnection installs on a connection.                      *)
(***************************************************************************)
\* the open handler leaves the insertion to the receipt of a handshake
OnOpenRegistry_AwaitHandshake(reg, peer, h) == reg

\* conn.on('open'): this.connections.set(conn.peer, {connection: conn, ...})
OnOpenRegistry(reg, peer, h) == RegSet(reg, peer, h)

\* the close handler leaves the registry as it is
OnCloseRegistry_Keep(reg, peer, h) == reg

\* conn.on('close'): this.connections.delete(conn.peer)
OnCloseRegistry(reg, peer, h) == RegDelete(reg, peer)

\* conn.on('error'): this.connections.delete(conn.peer)
OnErrorRegistry(reg, peer, h) == RegDelete(reg, peer)

\* the handshake each registering handler sends on the new connection: the
\* open handler calls sendHandshake, connectBluetoothDevice calls
\* sendBluetoothHandshake, setupGenericBluetoothConnection sends nothing
HandshakeOnOpen == {"handshake"}

HandshakeOnBluetooth == {"bluetooth-handshake"}

HandshakeOnGeneric == {}

\* peer.connect(remotePeerId, ...) returned a connection; setupConnection(conn, false)
connectToPeer(p) ==
    /\ FreeHandles # {}
    /\ hstate' = [hstate EXCEPT ![NextHandle] = "connecting"]
    /\ hpeer' = [hpeer EXCEPT ![NextHandle] = p]
    /\ Runs(Ev("connectToPeer", NextHandle, p))
    /\ UNCHANGED <<torn, connections, bluetoothConnections, gatt, btpc>>
    /\ UNCHANGED bcVars

\* peer.on('connection'): setupConnection(conn, true)
handleIncomingConnection(p) ==
    /\ FreeHandles # {}
    /\ hstate' = [hstate EXCEPT ![NextHandle] = "connecting"]
    /\ hpeer' = [hpeer EXCEPT ![NextHandle] = p]
    /\ Runs(Ev("handleIncomingConnection", NextHandle, p))
    /\ UNCHANGED <<torn, connections, bluetoothConnections, gatt, btpc>>
    /\ UNCHANGED bcVars

\* sendHandshake(conn): conn.send(handshake) is not inside a try, so what
\* it throws leaves the open handler after the registry was set
sendHandshake(throws) == IF throws THEN {"uncaught"} ELSE {}

\* the data channel opens: conn.open becomes true and 'open' is emitted
ConnOpen(h) ==
    /\ hstate[h] = "connecting"
    /\ hstate' = [hstate EXCEPT ![h] = "open"]
    /\ connections' = OnOpenRegistry(connections, hpeer[h], h)
    /\ \E throws \in BOOLEAN :
          Runs([Ev("open", h, hpeer[h]) EXCEPT
                    !.set = HandshakeOnOpen \cup sendHandshake(throws)])
    /\ UNCHANGED <<hpeer, torn, bluetoothConnections, gatt, btpc>>
    /\ BcFollows

\* what the remote side can deliver: an envelope of a known type, one of an
\* unknown type, null, and (constrained only) bytes that are not JSON
Payloads == {"handshake", "ping", "message", "emergency", "file", "other", "null"}

BluetoothPayloads ==
    {"bluetooth-handshake", "ping", "message", "emergency", "file-notification", "other",
     "null", "garbled"}

\* handleIncomingMessage(data, source): switch (data.type) with no try, so
\* the TypeError of a null payload leaves the data handler
\* the handshake is shown like a chat message
handleIncomingMessage_ShowsHandshake(payload) ==
    IF payload = "null" THEN {"uncaught"}
    ELSE IF payload \in {"handshake", "message", "emergency", "file"} THEN {"displayed"}
    ELSE {}

handleIncomingMessage(payload) ==
    IF payload = "null" THEN {"uncaught"}
    ELSE IF payload \in {"message", "emergency", "file"} THEN {"displayed"}
    ELSE {}

\* whatever arrives is displayed
handleBluetoothMessage_ShowAll(payload) == {"displayed"}

\* handleBluetoothMessage(event): decode, JSON.parse and the switch are
\* inside one try, whose catch logs
handleBluetoothMessage(payload) ==
    IF payload \in {"message", "emergency"} THEN {"displayed"} ELSE {}

\* conn.on('data')
\* what the receiving instance does with a payload that arrives on a
\* connection of a transport: conn.on('data') calls handleIncomingMessage,
\* characteristicvaluechanged calls handleBluetoothMessage
ReceivedOn(transport, payload) ==
    IF transport = "direct" THEN handleIncomingMessage(payload)
    ELSE handleBluetoothMessage(payload)

ConnData(h, payload) ==
    /\ hstate[h] = "open"
    /\ Runs([Ev("data", h, hpeer[h]) EXCEPT !.set = handleIncomingMessage(payload)])
    /\ UNCHANGED connVars
    /\ UNCHANGED bcVars

\* the data channel closes (remote close or link loss): conn.open becomes
\* false and 'close' is emitted in the same task
ConnClose(h) ==
    /\ hstate[h] = "open"
    /\ hstate' = [hstate EXCEPT ![h] = "closed"]
    /\ connections' = OnCloseRegistry(connections, hpeer[h], h)
    /\ MarkTorn(h)
    /\ Runs(Ev("close", h, hpeer[h]))
    /\ UNCHANGED <<hpeer, bluetoothConnections, gatt, btpc>>
    /\ BcFollows

\* 'error' is emitted on a connection; the transport does not close it
ConnError(h) ==
    /\ hstate[h] \in {"connecting", "open"}
    /\ connections' = OnErrorRegistry(connections, hpeer[h], h)
    /\ IF hstate[h] = "open" THEN MarkTorn(h) ELSE UNCHANGED torn
    /\ Runs(Ev("error", h, hpeer[h]))
    /\ UNCHANGED <<hstate, hpeer, bluetoothConnections, gatt, btpc>>
    /\ BcFollows

\* disconnectPeer(peerId): close the registered connection and delete the key;
\* close() emits 'close' at once, whose handler deletes the same key
\* the registry is emptied
disconnectPeer_ClearsRegistry(p) ==
    /\ IF RegHas(connections, p)
       THEN LET h == RegGet(connections, p)
            IN  /\ hstate' = [hstate EXCEPT ![h] = "closed"]
                /\ IF hstate[h] = "open" THEN MarkTorn(h) ELSE UNCHANGED torn
                /\ connections' = <<>>
       ELSE UNCHANGED <<hstate, torn, connections>>
    /\ Runs(Ev("disconnectPeer", 0, p))
    /\ UNCHANGED <<hpeer, bluetoothConnections, gatt, btpc>>
    /\ BcFollows

disconnectPeer(p) ==
    /\ IF RegHas(connections, p)
       THEN LET h == RegGet(connections, p)
            IN  /\ hstate' = [hstate EXCEPT ![h] = "closed"]
                /\ IF hstate[h] = "open" THEN MarkTorn(h) ELSE UNCHANGED torn
                /\ connections' =
                       RegDelete(IF hstate[h] = "open"
                                 THEN OnCloseRegistry(connections, hpeer[h], h)
                                 ELSE connections, p)
       ELSE UNCHANGED <<hstate, torn, connections>>
    /\ Runs(Ev("disconnectPeer", 0, p))
    /\ UNCHANGED <<hpeer, bluetoothConnections, gatt, btpc>>
    /\ BcFollows

(***************************************************************************)
(* Constrained transport: connectBluetoothDevice and                       *)
(* setupGenericBluetoothConnection, one step per awaited call; the         *)
(* outcome of each call is the device's to choose.  A call on a device     *)
(* whose link is down cannot succeed.                                      *)
(***************************************************************************)
\* handleBluetoothDisconnect(device)
handleBluetoothDisconnect(reg, d) ==
    IF RegHas(reg, d) THEN RegDelete(reg, d) ELSE reg

\* this.bluetoothConnections.set(device.id, {..., type: 'bluetooth'})
RegisterBluetooth(reg, d) == RegSet(reg, d, "bluetooth")

\* this.bluetoothConnections.set(device.id, {..., type: 'bluetooth-generic'})
RegisterGeneric(reg, d) == RegSet(reg, d, "bluetooth-generic")

\* scanBluetoothDevices got a device; connectBluetoothDevice(device) runs up to
\* await device.gatt.connect()
\* the catch of connectBluetoothDevice and of setupGenericBluetoothConnection:
\* console.error and an 'error' toast
ConnectToast(ok) == IF ok THEN {} ELSE {"error"}

connectBluetoothDevice(d) ==
    /\ btpc[d] = "idle"
    /\ btpc' = [btpc EXCEPT ![d] = "gattConnect"]
    /\ Runs(Ev("connectBluetoothDevice", 0, d))
    /\ UNCHANGED <<hstate, hpeer, torn, connections, bluetoothConnections, gatt>>
    /\ UNCHANGED bcVars

\* device.gatt.connect() settles; then await server.getPrimaryService(...)
GattConnectDone(d, ok) ==
    /\ btpc[d] = "gattConnect"
    /\ gatt' = [gatt EXCEPT ![d] = ok \/ gatt[d]]
    /\ btpc' = [btpc EXCEPT ![d] = IF ok THEN "getService" ELSE "idle"]
    /\ Runs([Ev("gattConnect", 0, d) EXCEPT !.set = ConnectToast(ok)])
    /\ UNCHANGED <<hstate, hpeer, torn, connections, bluetoothConnections>>
    /\ UNCHANGED bcVars

\* getPrimaryService settles: the named service is there, or the generic
\* fallback starts with await server.getPrimaryServices()
GetServiceDone(d, ok) ==
    /\ btpc[d] = "getService"
    /\ ok => gatt[d]
    /\ btpc' = [btpc EXCEPT ![d] = IF ok THEN "getChar" ELSE "genServices"]
    /\ Runs(Ev("getPrimaryService", 0, d))
    /\ UNCHANGED <<hstate, hpeer, torn, connections, bluetoothConnections, gatt>>
    /\ UNCHANGED bcVars

\* service.getCharacteristic settles; then await messageChar.startNotifications()
GetCharacteristicDone(d, ok) ==
    /\ btpc[d] = "getChar"
    /\ ok => gatt[d]
    /\ btpc' = [btpc EXCEPT ![d] = IF ok THEN "startNotif" ELSE "idle"]
    /\ Runs([Ev("getCharacteristic", 0, d) EXCEPT !.set = ConnectToast(ok)])
    /\ UNCHANGED <<hstate, hpeer, torn, connections, bluetoothConnections, gatt>>
    /\ UNCHANGED bcVars

\* startNotifications settles; on success the entry is registered and the
\* handshake write is awaited
StartNotificationsDone(d, ok) ==
    /\ btpc[d] = "startNotif"
    /\ ok => gatt[d]
    /\ bluetoothConnections' =
          IF ok THEN RegisterBluetooth(bluetoothConnections, d) ELSE bluetoothConnections
    /\ btpc' = [btpc EXCEPT ![d] = IF ok THEN "handshake" ELSE "idle"]
    /\ Runs([Ev("startNotifications", 0, d) EXCEPT
                 !.set = IF ok THEN HandshakeOnBluetooth ELSE ConnectToast(ok)])
    /\ UNCHANGED <<hstate, hpeer, torn, connections, gatt>>
    /\ BcFollows

\* sendBluetoothHandshake settles, with or without error
HandshakeDone(d, ok) ==
    /\ btpc[d] = "handshake"
    /\ ok => gatt[d]
    /\ btpc' = [btpc EXCEPT ![d] = "idle"]
    /\ Runs([Ev("sendBluetoothHandshake", 0, d) EXCEPT !.set = ConnectToast(ok)])
    /\ UNCHANGED <<hstate, hpeer, torn, connections, bluetoothConnections, gatt>>
    /\ UNCHANGED bcVars

\* the characteristics of a device without the named service, in the order
\* the walk meets them, each with its write (with or without response) and
\* notify properties
CharacteristicTables ==
    UNION {[1..n -> [write : BOOLEAN, notify : BOOLEAN]] : n \in 0..2}

Writable(chars) == {i \in 1..Len(chars) : chars[i].write}

\* the characteristic the walk stops at: the first one that is writable
FirstWritable(chars) == CHOOSE i \in Writable(chars) : \A j \in Writable(chars) : i <= j

\* if (properties.notify): the property of the characteristic chosen for
\* writing
GenericNotifies(chars) == Writable(chars) # {} /\ chars[FirstWritable(chars)].notify

\* what the walk came across, for the event history
WalkSaw(chars) ==
    (IF Writable(chars) # {} THEN {"writable"} ELSE {})
    \cup (IF \E i \in 1..Len(chars) : chars[i].notify THEN {"notify"} ELSE {})

\* setupGenericBluetoothConnection walks the services and characteristics;
\* ok is whether the walk itself went through (getPrimaryServices and
\* getCharacteristics fulfilled)
GenericWalkDone(d, ok, chars) ==
    /\ btpc[d] = "genServices"
    /\ ok => gatt[d]
    /\ bluetoothConnections' =
          IF ok /\ Writable(chars) # {} THEN RegisterGeneric(bluetoothConnections, d)
          ELSE bluetoothConnections
    /\ btpc' = [btpc EXCEPT ![d] = IF ok /\ GenericNotifies(chars) THEN "genNotif" ELSE "idle"]
    /\ Runs([Ev("setupGenericBluetoothConnection", 0, d) EXCEPT
                 !.set = IF ok
                         THEN WalkSaw(chars) \cup
                              (IF Writable(chars) # {} THEN HandshakeOnGeneric
                               ELSE ConnectToast(FALSE))
                         ELSE ConnectToast(ok)])
    /\ UNCHANGED <<hstate, hpeer, torn, connections, gatt>>
    /\ BcFollows

\* the generic characteristic's startNotifications settles
GenericNotificationsDone(d, ok) ==
    /\ btpc[d] = "genNotif"
    /\ ok => gatt[d]
    /\ btpc' = [btpc EXCEPT ![d] = "idle"]
    /\ Runs([Ev("genericStartNotifications", 0, d) EXCEPT !.set = ConnectToast(ok)])
    /\ UNCHANGED <<hstate, hpeer, torn, connections, bluetoothConnections, gatt>>
    /\ UNCHANGED bcVars

\* 'characteristicvaluechanged' on the characteristic of the named service
CharacteristicValueChanged(d, payload) ==
    /\ RegHas(bluetoothConnections, d)
    /\ RegGet(bluetoothConnections, d) = "bluetooth"
    /\ gatt[d]
    /\ Runs([Ev("characteristicvaluechanged", 0, d) EXCEPT
                 !.set = handleBluetoothMessage(payload)])
    /\ UNCHANGED connVars
    /\ UNCHANGED bcVars

\* the link to a device is lost: gatt.connected becomes false and
\* 'gattserverdisconnected' runs handleBluetoothDisconnect
GattDisconnected(d) ==
    /\ gatt[d]
    /\ gatt' = [gatt EXCEPT ![d] = FALSE]
    /\ bluetoothConnections' = handleBluetoothDisconnect(bluetoothConnections, d)
    /\ Runs(Ev("gattserverdisconnected", 0, d))
    /\ UNCHANGED <<hstate, hpeer, torn, connections, btpc>>
    /\ BcAfterBluetoothDelete(d)

\* disconnectBluetoothDevice(deviceId)
disconnectBluetoothDevice(d) ==
    /\ UNCHANGED <<hstate, hpeer, torn, connections, btpc>>
    /\ IF RegHas(bluetoothConnections, d) /\ gatt[d]
       THEN /\ gatt' = [gatt EXCEPT ![d] = FALSE]
            /\ bluetoothConnections' =
                  RegDelete(handleBluetoothDisconnect(bluetoothConnections, d), d)
            /\ BcAfterBluetoothDelete(d)
       ELSE UNCHANGED <<gatt, bluetoothConnections, bcVars>>
    /\ Runs(Ev("disconnectBluetoothDevice", 0, d))

(***************************************************************************)
(* monitorConnectionQuality: one pass of the 10 s interval.  failing is    *)
(* the set of peers whose connection.send throws in this pass.             *)
(***************************************************************************)
\* the pass removes nothing
ProbeRegistry_KeepFailing(reg, isOpen, failing) == reg

\* the catch branch empties the registry
ProbeRegistry_Clear(reg, isOpen, failing) ==
    IF \E i \in 1..Len(reg) : isOpen[reg[i].val] /\ reg[i].key \in failing THEN <<>> ELSE reg

\* the registry after the forEach: an entry is pinged when its connection
\* reports open, and deleted when the ping throws
ProbeRegistry(reg, isOpen, failing) ==
    SelectSeq(reg, LAMBDA e : ~(isOpen[e.val] /\ e.key \in failing))

\* the keys on which the pass calls connection.send({type: 'ping', ...})
ProbePings(reg, isOpen) == {reg[i].key : i \in {k \in 1..Len(reg) : isOpen[reg[k].val]}}

HandleOpen == [h \in Handles |-> hstate[h] = "open"]

monitorConnectionQuality(failing) ==
    /\ failing \subseteq RegKeys(connections)
    /\ connections' = ProbeRegistry(connections, HandleOpen, failing)
    /\ Runs([Ev("monitorConnectionQuality", 0, "none") EXCEPT
                 !.set = failing, !.pings = ProbePings(connections, HandleOpen)])
    /\ UNCHANGED <<hstate, hpeer, torn, bluetoothConnections, gatt, btpc>>
    /\ BcFollows

(***************************************************************************)
(* Delivery fanout: sendMessage and sendEmergencyAlert.  One broadcast is  *)
(* followed at a time.  The part of a handler between two awaits is one    *)
(* step; registry events may come between the steps.                       *)
(***************************************************************************)
NullLocation == [latitude |-> "null", longitude |-> "null", accuracy |-> "null"]

Positions == {[latitude |-> "6.45", longitude |-> "3.39", accuracy |-> "12"]}

\* what the geolocation collaborator does: it is absent, it calls the error
\* callback (denied, unavailable or timed out), or it delivers a position
GeoOutcomes == {"absent", "denied", "granted"}

\* the collaborator may also call neither callback, as while its permission
\* prompt is left unanswered: getCurrentLocation sets no timer of its own
GeoBehaviours == GeoOutcomes \cup {"silent"}

NoLocation == [latitude |-> "unset", longitude |-> "unset", accuracy |-> "unset"]

\* wire is history: what the broadcast has put on each connection, in order,
\* as [conn, what] with what = "send" where a send is started and "failed"
\* where it fails; it is kept when the event history is
BcIdle ==
    [pc |-> "idle", type |-> "none", reported |-> 0, idx |-> 0,
     cur |-> "none", geo |-> "none", location |-> NoLocation, wire |-> <<>>,
     invoked |-> {}]

\* invoked is history, kept when wire is: the entries of both registries when
\* the send operation was called
Invoked == IF KeepsWire THEN Registered ELSE {}

Wire(w, recs) == IF KeepsWire THEN w \o recs ELSE w

OnWire(conn, what) == [conn |-> conn, what |-> what]

\* the error callback resolves with the fields of the error object
getCurrentLocation_ErrorFields(geo, pos) ==
    IF geo = "granted" THEN pos
    ELSE [latitude |-> "undefined", longitude |-> "undefined", accuracy |-> "undefined"]

\* getCurrentLocation(): what the promise resolves to
getCurrentLocation(geo, pos) ==
    IF geo = "absent" THEN NullLocation
    ELSE IF geo = "granted" THEN pos
    ELSE NullLocation

\* no try/catch around the send: the first throw ends the forEach
DirectSendTargets_UntilThrow(reg, failing) ==
    {i \in 1..Len(reg) : \A j \in 1..(i - 1) : reg[j].key \notin failing}

\* this.connections.forEach with try/catch around each send: the positions
\* of the entries on which send is called; failing are the keys whose send throws
DirectSendTargets(reg, failing) == 1..Len(reg)

DirectAttempts(reg, failing) ==
    {<<"direct", reg[i].key, reg[i].val>> : i \in DirectSendTargets(reg, failing)}

DirectFailures(reg, failing) ==
    LET T == DirectSendTargets(reg, failing)
    IN  IF \E i \in T, j \in T : i < j /\ reg[i].key \in failing THEN "then"
        ELSE IF \E i \in T : reg[i].key \in failing THEN "some"
        ELSE "none"

\* what the forEach puts on the direct connections, from position i on
RECURSIVE DirectWire(_, _, _)
DirectWire(reg, failing, i) ==
    IF i > Len(reg) THEN <<>>
    ELSE (IF i \in DirectSendTargets(reg, failing)
          THEN << OnWire(<<"direct", reg[i].key, reg[i].val>>, "send") >>
               \o (IF reg[i].key \in failing
                   THEN << OnWire(<<"direct", reg[i].key, reg[i].val>>, "failed") >>
                   ELSE <<>>)
          ELSE <<>>)
         \o DirectWire(reg, failing, i + 1)

\* the write fails again and again on the same entry
NextBluetoothIndex_Retry(idx, reg, ok) == IF ok THEN idx + 1 ELSE idx

\* the for...of over this.bluetoothConnections after the entry at idx: the
\* loop goes on to the next entry whether or not the write at idx failed
NextBluetoothIndex(idx, reg, ok) == idx + 1

\* the loop reaches position i of the constrained registry: it calls
\* writeBluetoothMessage on the entry there and awaits it, or, past the last
\* entry, displays the message and reports the count taken at the start
BluetoothLoop(b, i, att, fl) ==
    IF i <= Len(bluetoothConnections)
    THEN /\ bc' = [b EXCEPT !.pc = "btwrite", !.idx = i,
                            !.cur = bluetoothConnections[i].key,
                            !.wire = Wire(b.wire,
                                          << OnWire(<<"bluetooth", bluetoothConnections[i].key,
                                                      bluetoothConnections[i].val>>, "send") >>)]
         /\ attempted' = att \cup {<<"bluetooth", bluetoothConnections[i].key,
                                      bluetoothConnections[i].val>>}
         /\ failed' = IF fl = "some" THEN "then" ELSE fl
    ELSE /\ bc' = [b EXCEPT !.pc = "done", !.idx = i, !.cur = "none"]
         /\ attempted' = att
         /\ failed' = fl

\* the guard is never taken
NoConnections_Never(total) == FALSE

\* if (totalConnections === 0) { showToast(..., 'warning'); return; }
NoConnections(total) == total = 0

\* the toast of a send operation that returns early: none when there is
\* nothing to send, a warning when there is no connection
EarlyToast(hasInput, total) ==
    IF ~hasInput THEN {} ELSE IF NoConnections(total) THEN {"warning"} ELSE {}

\* sendMessage(): text is the trimmed input, failing the peers whose send throws
sendMessage(text, failing) ==
    /\ bc.pc = "idle"
    /\ failing \subseteq RegKeys(connections)
    /\ Runs([Ev("sendMessage", 0, text) EXCEPT
                 !.set = EarlyToast(text # "", getTotalConnections)])
    /\ UNCHANGED connVars
    /\ IF text = "" \/ NoConnections(getTotalConnections)
       THEN UNCHANGED bcVars
       ELSE /\ present' = Registered
            /\ BluetoothLoop([BcIdle EXCEPT !.invoked = Invoked, !.type = "message",
                                            !.reported = getTotalConnections,
                                            !.wire = Wire(<<>>, DirectWire(connections, failing, 1))],
                             1,
                             DirectAttempts(connections, failing),
                             DirectFailures(connections, failing))

\* sendEmergencyAlert() up to await this.getCurrentLocation(); without a
\* geolocation collaborator the promise is resolved already and the handler
\* goes on in the same task
sendEmergencyAlert(geo, failing) ==
    /\ bc.pc = "idle"
    /\ failing \subseteq RegKeys(connections)
    /\ Runs([Ev("sendEmergencyAlert", 0, geo) EXCEPT
                 !.set = EarlyToast(TRUE, getTotalConnections)])
    /\ UNCHANGED connVars
    /\ IF NoConnections(getTotalConnections)
       THEN UNCHANGED bcVars
       ELSE /\ present' = Registered
            /\ IF geo = "absent"
               THEN BluetoothLoop([BcIdle EXCEPT !.invoked = Invoked, !.type = "emergency", !.geo = geo,
                                                !.reported = getTotalConnections,
                                                !.location = getCurrentLocation(geo, NoLocation),
                                                !.wire = Wire(<<>>, DirectWire(connections, failing, 1))],
                                  1,
                                  DirectAttempts(connections, failing),
                                  DirectFailures(connections, failing))
               ELSE /\ failing = {}
                    /\ bc' = [BcIdle EXCEPT !.invoked = Invoked, !.type = "emergency", !.pc = "loc",
                                            !.geo = geo,
                                            !.reported = getTotalConnections]
                    /\ attempted' = {}
                    /\ failed' = "none"

\* the location promise resolves: emergencyData is built and sent over the
\* direct connections, and the loop over the constrained ones starts
LocationResolved(pos, failing) ==
    /\ bc.pc = "loc"
    /\ bc.geo # "silent"
    /\ failing \subseteq RegKeys(connections)
    /\ Runs(Ev("locationResolved", 0, bc.geo))
    /\ UNCHANGED connVars
    /\ UNCHANGED present
    /\ BluetoothLoop([bc EXCEPT !.location = getCurrentLocation(bc.geo, pos),
                                !.wire = Wire(<<>>, DirectWire(connections, failing, 1))],
                     1,
                     DirectAttempts(connections, failing),
                     DirectFailures(connections, failing))

\* displayMessage / displayEmergencyAlert (which plays the alert sound) /
\* displayFileMessage and the "sent to N device(s)" toast: the statements
\* after the last loop
RenderedLocally == bc.pc = "done"

\* the broadcast after the awaited writeBluetoothMessage has settled: a
\* failure is caught and logged, and the loop goes on
AfterBluetoothWrite(ok) ==
    /\ UNCHANGED present
    /\ BluetoothLoop([bc EXCEPT !.wire =
                          Wire(bc.wire,
                               IF ok THEN <<>>
                               ELSE << OnWire(bc.wire[Len(bc.wire)].conn, "failed") >>)],
                     NextBluetoothIndex(bc.idx, bluetoothConnections, ok),
                     attempted,
                     IF ~ok /\ failed = "none" THEN "some" ELSE failed)

\* the awaited writeBluetoothMessage settles
BluetoothWriteDone(ok) ==
    /\ bc.pc = "btwrite"
    /\ ok => gatt[bc.cur]
    /\ Runs(Ev("writeBluetoothMessage", 0, bc.cur))
    /\ UNCHANGED connVars
    /\ AfterBluetoothWrite(ok)

\* sendFile() up to await this.fileToBase64(file); without a file selected
\* it returns with an error toast
\* what sendFile puts on a connection of a transport: fileMessage on a direct
\* one, fileNotification (id: fileMessage.id, no data) on a constrained one
FileOnTransport(transport) ==
    [type |-> IF transport = "direct" THEN "file" ELSE "file-notification",
     id |-> "fileMessage.id",
     data |-> transport = "direct"]

sendFile(hasFile, failing) ==
    /\ bc.pc = "idle"
    /\ failing = {}
    /\ Runs([Ev("sendFile", 0, IF hasFile THEN "file" ELSE "") EXCEPT
                 !.set = IF hasFile THEN EarlyToast(TRUE, getTotalConnections)
                         ELSE {"error"}])
    /\ UNCHANGED connVars
    /\ IF ~hasFile \/ NoConnections(getTotalConnections)
       THEN UNCHANGED bcVars
       ELSE /\ present' = Registered
            /\ bc' = [BcIdle EXCEPT !.invoked = Invoked, !.type = "file", !.pc = "read",
                                    !.reported = getTotalConnections]
            /\ attempted' = {}
            /\ failed' = "none"

\* fileToBase64 settles: the file message goes to the direct connections and
\* the loop over the constrained ones starts with the notification; a
\* rejection is caught by the outer catch, which sends nothing
FileReadDone(ok, failing) ==
    /\ bc.pc = "read"
    /\ failing \subseteq RegKeys(connections)
    /\ ok \/ failing = {}
    /\ Runs([Ev("fileToBase64", 0, "file") EXCEPT !.set = IF ok THEN {} ELSE {"error"}])
    /\ UNCHANGED connVars
    /\ IF ok
       THEN /\ UNCHANGED present
            /\ BluetoothLoop([bc EXCEPT !.wire = Wire(<<>>, DirectWire(connections, failing, 1))],
                             1, DirectAttempts(connections, failing),
                             DirectFailures(connections, failing))
       ELSE /\ bc' = BcIdle
            /\ attempted' = {}
            /\ failed' = "none"
            /\ present' = {}

\* the broadcast has returned: its history is dropped
BroadcastReturns ==
    /\ bc.pc = "done"
    /\ bc' = BcIdle
    /\ attempted' = {}
    /\ failed' = "none"
    /\ present' = {}
    /\ UNCHANGED connVars
    /\ UNCHANGED codecVars
    /\ UNCHANGED startVars
    /\ UNCHANGED pairVars
    /\ UNCHANGED serverVars
    /\ UNCHANGED rxVars
    /\ ev' = IF Recording THEN Ev("broadcastReturns", 0, "none") ELSE ev

(***************************************************************************)
(* SpecDirect: the direct transport of one application instance, with the  *)
(* quality probe; the constrained registry holds what earlier connects     *)
(* left in it.                                                             *)
(***************************************************************************)
PairPeers == {"peerA", "peerB"}

Links == 1..MaxLinks

NoBody == [has |-> {}, id |-> 0, timestamp |-> 0, status |-> "none"]

\* the server has started and written [] to the file; nothing was asked yet
ServerIdle ==
    /\ emergencies = <<>>
    /\ serverNow = 1
    /\ req = [op |-> "none", id |-> [num |-> FALSE, v |-> 0], body |-> NoBody]
    /\ res = [code |-> 0, body |-> <<>>]
    /\ created = <<>>

RxIdle ==
    /\ delivered = 0
    /\ handed = <<>>
    /\ dropped = 0
    /\ calls = 0
    /\ other = NoOther

PairIdle ==
    /\ ServerIdle
    /\ RxIdle
    /\ preg = [p \in PairPeers |-> <<>>]
    /\ lfrom = [l \in Links |-> "none"]
    /\ lside = [l \in Links |-> [p \in PairPeers |-> "none"]]

StartIdle ==
    /\ PairIdle
    /\ started = FALSE
    /\ thisPeer = TRUE
    /\ autoConnect = TRUE
    /\ connectionPriority = "webrtc"
    /\ timers = <<>>
    /\ scanLog = <<>>
    /\ scanEnded = {}
    /\ saves = 0
    /\ peerErrors = 0

CodecIdle ==
    /\ StartIdle
    /\ wmsg = <<>>
    /\ wpc = "none"
    /\ woff = 0
    /\ frames = <<>>
    /\ writeTimes = <<>>
    /\ delays = 0
    /\ now = 0
    /\ timerAt = 0

BcInit ==
    /\ CodecIdle
    /\ bc = BcIdle
    /\ attempted = {}
    /\ failed = "none"
    /\ present = {}

InitialBluetooth ==
    { <<>>,
      <<[key |-> "dev1", val |-> "bluetooth"]>>,
      <<[key |-> "dev2", val |-> "bluetooth-generic"], [key |-> "dev1", val |-> "bluetooth"]>> }

InitDirect ==
    /\ hstate = [h \in Handles |-> "free"]
    /\ hpeer = [h \in Handles |-> "none"]
    /\ torn = [h \in Handles |-> FALSE]
    /\ connections = <<>>
    /\ bluetoothConnections \in InitialBluetooth
    /\ gatt = [d \in Devices |-> RegHas(bluetoothConnections, d)]
    /\ btpc = [d \in Devices |-> "idle"]
    /\ ev = Ev("init", 0, "none")
    /\ BcInit

NextDirect ==
    \/ \E p \in RemotePeers : connectToPeer(p)
    \/ \E p \in RemotePeers : handleIncomingConnection(p)
    \/ \E h \in Handles : ConnOpen(h)
    \/ \E h \in Handles : ConnClose(h)
    \/ \E h \in Handles : ConnError(h)
    \/ \E p \in RemotePeers : disconnectPeer(p)
    \/ \E failing \in SUBSET RemotePeers : monitorConnectionQuality(failing)

SpecDirect == InitDirect /\ [][NextDirect]_vars

(***************************************************************************)
(* SpecBluetooth: the constrained transport of one application instance.   *)
(***************************************************************************)
InitBluetooth ==
    /\ ConnInit
    /\ ev = Ev("init", 0, "none")
    /\ BcInit

NextBluetooth ==
    \/ \E d \in Devices : connectBluetoothDevice(d)
    \/ \E d \in Devices, ok \in BOOLEAN : GattConnectDone(d, ok)
    \/ \E d \in Devices, ok \in BOOLEAN : GetServiceDone(d, ok)
    \/ \E d \in Devices, ok \in BOOLEAN : GetCharacteristicDone(d, ok)
    \/ \E d \in Devices, ok \in BOOLEAN : StartNotificationsDone(d, ok)
    \/ \E d \in Devices, ok \in BOOLEAN : HandshakeDone(d, ok)
    \/ \E d \in Devices, ok \in BOOLEAN, chars \in CharacteristicTables :
           GenericWalkDone(d, ok, chars)
    \/ \E d \in Devices, ok \in BOOLEAN : GenericNotificationsDone(d, ok)
    \/ \E d \in Devices : GattDisconnected(d)
    \/ \E d \in Devices : disconnectBluetoothDevice(d)

SpecBluetooth == InitBluetooth /\ [][NextBluetooth]_vars

(***************************************************************************)
(* SpecOpen: one instance from page load on: direct connections to one     *)
(* remote peer and one constrained device are connected, inbound messages  *)
(* arrive on what is open, and the user sends messages.                    *)
(***************************************************************************)
OpenPeers == {"peerB"}

OpenDevices == {"dev1"}

NextOpen ==
    \/ BroadcastReturns
    \/ \E p \in OpenPeers : connectToPeer(p)
    \/ \E p \in OpenPeers : handleIncomingConnection(p)
    \/ \E h \in Handles : ConnOpen(h)
    \/ \E h \in Handles, payload \in Payloads : ConnData(h, payload)
    \/ \E d \in OpenDevices : connectBluetoothDevice(d)
    \/ \E d \in OpenDevices, ok \in BOOLEAN : GattConnectDone(d, ok)
    \/ \E d \in OpenDevices, ok \in BOOLEAN : GetServiceDone(d, ok)
    \/ \E d \in OpenDevices, ok \in BOOLEAN : GetCharacteristicDone(d, ok)
    \/ \E d \in OpenDevices, ok \in BOOLEAN : StartNotificationsDone(d, ok)
    \/ \E d \in OpenDevices, ok \in BOOLEAN : HandshakeDone(d, ok)
    \/ \E d \in OpenDevices, ok \in BOOLEAN, chars \in CharacteristicTables :
           GenericWalkDone(d, ok, chars)
    \/ \E d \in OpenDevices, ok \in BOOLEAN : GenericNotificationsDone(d, ok)
    \/ \E d \in OpenDevices, payload \in BluetoothPayloads :
           CharacteristicValueChanged(d, payload)
    \/ \E text \in {"", "help"} : sendMessage(text, {})
    \/ \E ok \in BOOLEAN : BluetoothWriteDone(ok)

SpecOpen == InitBluetooth /\ [][NextOpen]_vars

(***************************************************************************)
(* SpecBoth: connections of both transports opening and closing, and       *)
(* sendMessage.  The remote peer and the constrained device are one and    *)
(* the same remote device, reached over both transports.  A connect to    *)
(* the device is started between broadcasts only, which bounds the times a *)
(* running broadcast can meet the device anew; a connect that was started  *)
(* before completes at any time.                                           *)
(***************************************************************************)
NextBoth ==
    \/ BroadcastReturns
    \/ \E p \in OpenPeers : connectToPeer(p)
    \/ \E h \in Handles : ConnOpen(h)
    \/ \E h \in Handles : ConnClose(h)
    \/ \E p \in OpenPeers : disconnectPeer(p)
    \/ \E failing \in SUBSET OpenPeers : monitorConnectionQuality(failing)
    \/ \E d \in OpenDevices : bc.pc = "idle" /\ connectBluetoothDevice(d)
    \/ \E d \in OpenDevices, ok \in BOOLEAN : GattConnectDone(d, ok)
    \/ \E d \in OpenDevices, ok \in BOOLEAN : GetServiceDone(d, ok)
    \/ \E d \in OpenDevices, ok \in BOOLEAN : GetCharacteristicDone(d, ok)
    \/ \E d \in OpenDevices, ok \in BOOLEAN : StartNotificationsDone(d, ok)
    \/ \E d \in OpenDevices, ok \in BOOLEAN : HandshakeDone(d, ok)
    \/ \E d \in OpenDevices, ok \in BOOLEAN, chars \in CharacteristicTables :
           GenericWalkDone(d, ok, chars)
    \/ \E d \in OpenDevices, ok \in BOOLEAN : GenericNotificationsDone(d, ok)
    \/ \E d \in OpenDevices : GattDisconnected(d)
    \/ \E d \in OpenDevices : disconnectBluetoothDevice(d)
    \/ sendMessage("help", {})
    \/ \E ok \in BOOLEAN : BluetoothWriteDone(ok)

InitBoth ==
    /\ ConnInit
    /\ ev = Ev("wire", 0, "none")
    /\ BcInit

SpecBoth == InitBoth /\ [][NextBoth]_vars

(***************************************************************************)
(* SpecFanout: broadcasts of one application instance while connections of *)
(* both transports open and close.  It starts where connectToPeer has been *)
(* called for peerB and for peerC and connectBluetoothDevice stands behind *)
(* gatt.connect() for both devices: for dev1 the named service and its     *)
(* characteristic were found (startNotifications is awaited), for dev2 the *)
(* named service was not (the generic walk is awaited).                    *)
(* No event history is kept.  A broadcast that has returned drops its      *)
(* history before anything else happens.                                   *)
(***************************************************************************)
InitFanout ==
    /\ hstate = [h \in Handles |-> IF h \in {1, 2} THEN "connecting" ELSE "free"]
    /\ hpeer = [h \in Handles |-> IF h = 1 THEN "peerB" ELSE IF h = 2 THEN "peerC" ELSE "none"]
    /\ torn = [h \in Handles |-> FALSE]
    /\ connections = <<>>
    /\ bluetoothConnections = <<>>
    /\ gatt = [d \in Devices |-> TRUE]
    /\ btpc = [d \in Devices |-> IF d = "dev1" THEN "startNotif" ELSE "genServices"]
    /\ ev = Ev("off", 0, "none")
    /\ BcInit

NextFanout ==
    \/ BroadcastReturns
    \/ \E h \in Handles : ConnOpen(h)
    \/ \E h \in Handles : ConnClose(h)
    \/ \E h \in Handles : ConnError(h)
    \/ \E p \in RemotePeers : disconnectPeer(p)
    \/ \E failing \in SUBSET RemotePeers : monitorConnectionQuality(failing)
    \/ \E d \in Devices, ok \in BOOLEAN : StartNotificationsDone(d, ok)
    \/ \E d \in Devices, ok \in BOOLEAN : HandshakeDone(d, ok)
    \/ \E d \in Devices, ok \in BOOLEAN, chars \in CharacteristicTables :
           GenericWalkDone(d, ok, chars)
    \/ \E d \in Devices, ok \in BOOLEAN : GenericNotificationsDone(d, ok)
    \/ \E d \in Devices : GattDisconnected(d)
    \/ \E d \in Devices : disconnectBluetoothDevice(d)
    \/ \E text \in {"", "help"}, failing \in SUBSET RemotePeers : sendMessage(text, failing)
    \/ \E geo \in GeoOutcomes, failing \in SUBSET RemotePeers : sendEmergencyAlert(geo, failing)
    \/ \E pos \in Positions, failing \in SUBSET RemotePeers : LocationResolved(pos, failing)
    \/ \E ok \in BOOLEAN : BluetoothWriteDone(ok)

SpecFanout == InitFanout /\ [][NextFanout]_vars

(***************************************************************************)
(* SpecSend: the three send operations of one instance with the event      *)
(* history kept.  It starts with the registries earlier connects left:     *)
(* none, one or two direct connections, none, one or two constrained ones. *)
(* Connections are lost while a broadcast is in progress.                  *)
(***************************************************************************)
InitialDirect ==
    { <<>>,
      <<[key |-> "peerB", val |-> 1]>>,
      <<[key |-> "peerB", val |-> 1], [key |-> "peerC", val |-> 2]>> }

InitSend ==
    /\ connections \in InitialDirect
    /\ hstate = [h \in Handles |->
                   IF \E i \in 1..Len(connections) : connections[i].val = h
                   THEN "open" ELSE "free"]
    /\ hpeer = [h \in Handles |->
                  IF h = 1 /\ hstate[h] = "open" THEN "peerB"
                  ELSE IF h = 2 /\ hstate[h] = "open" THEN "peerC" ELSE "none"]
    /\ torn = [h \in Handles |-> FALSE]
    /\ bluetoothConnections \in InitialBluetooth
    /\ gatt = [d \in Devices |-> RegHas(bluetoothConnections, d)]
    /\ btpc = [d \in Devices |-> "idle"]
    /\ ev = Ev("init", 0, "none")
    /\ BcInit

NextSend ==
    \/ BroadcastReturns
    \/ \E h \in Handles : ConnClose(h)
    \/ \E d \in Devices : GattDisconnected(d)
    \/ \E text \in {"", "help"}, failing \in SUBSET RemotePeers : sendMessage(text, failing)
    \/ \E geo \in GeoOutcomes, failing \in SUBSET RemotePeers : sendEmergencyAlert(geo, failing)
    \/ \E hasFile \in BOOLEAN : sendFile(hasFile, {})
    \/ \E pos \in Positions, failing \in SUBSET RemotePeers : LocationResolved(pos, failing)
    \/ \E ok \in BOOLEAN, failing \in SUBSET RemotePeers : FileReadDone(ok, failing)
    \/ \E ok \in BOOLEAN : BluetoothWriteDone(ok)

SpecSend == InitSend /\ [][NextSend]_vars

(***************************************************************************)
(* SpecLocate: sendEmergencyAlert with every behaviour of the geolocation  *)
(* collaborator.  A callback the collaborator is going to make is made, an *)
(* awaited write settles and a finished broadcast returns; connections are *)
(* lost at any time or never.                                              *)
(***************************************************************************)
NextLocate ==
    \/ BroadcastReturns
    \/ \E h \in Handles : ConnClose(h)
    \/ \E d \in Devices : GattDisconnected(d)
    \/ \E geo \in GeoBehaviours, failing \in SUBSET RemotePeers : sendEmergencyAlert(geo, failing)
    \/ \E pos \in Positions, failing \in SUBSET RemotePeers : LocationResolved(pos, failing)
    \/ \E ok \in BOOLEAN : BluetoothWriteDone(ok)

SpecLocate ==
    /\ InitSend
    /\ [][NextLocate]_vars
    /\ WF_vars(\E pos \in Positions, failing \in SUBSET RemotePeers : LocationResolved(pos, failing))
    /\ WF_vars(\E ok \in BOOLEAN : BluetoothWriteDone(ok))
    /\ WF_vars(BroadcastReturns)

(***************************************************************************)
(* SpecRecover: the handlers that meet a throwing send or a malformed      *)
(* payload: the open and data handlers of direct connections, the value    *)
(* handler of constrained ones, the probe and sendMessage.                 *)
(***************************************************************************)
NextRecover ==
    \/ BroadcastReturns
    \/ \E p \in RemotePeers : connectToPeer(p)
    \/ \E h \in Handles : ConnOpen(h)
    \/ \E h \in Handles, payload \in Payloads : ConnData(h, payload)
    \/ \E d \in Devices, payload \in BluetoothPayloads : CharacteristicValueChanged(d, payload)
    \/ \E failing \in SUBSET RemotePeers : monitorConnectionQuality(failing)
    \/ \E text \in {"", "help"}, failing \in SUBSET RemotePeers : sendMessage(text, failing)
    \/ \E ok \in BOOLEAN : BluetoothWriteDone(ok)

SpecRecover == InitSend /\ [][NextRecover]_vars

(***************************************************************************)
(* SpecCodec: one call of writeBluetoothMessage(characteristic, data) on a *)
(* message already encoded, with the clock.  A step is the part of the     *)
(* function between two awaits.                                            *)
(***************************************************************************)
maxChunkSize == 20

PacingDelay == 50

\* Uint8Array.prototype.slice(from, to): the bytes at from .. to-1, counted
\* from 0, cut at the end of the array
Slice(bytes, from, to) ==
    LET hi == IF to < Len(bytes) THEN to ELSE Len(bytes)
    IN  IF from >= hi THEN <<>> ELSE [k \in 1..(hi - from) |-> bytes[from + k]]

\* the slice ends one byte early
ChunkAt_OffByOne(bytes, i) == Slice(bytes, i, i + maxChunkSize - 1)

\* const chunk = encodedMessage.slice(i, i + maxChunkSize)
ChunkAt(bytes, i) == Slice(bytes, i, i + maxChunkSize)

\* the comparison is strict
FitsOneFrame_Strict(len) == len < maxChunkSize

\* encodedMessage.length <= maxChunkSize
FitsOneFrame(len) == len <= maxChunkSize

\* the encoded messages tried: every length up to MaxLen, the byte at each
\* place a function of the place, so that no two frames of a message are equal
ByteAt(seed, k) == (seed + 7 * k) % 256

EncodedMessages ==
    {[k \in 1..len |-> ByteAt(seed, k)] : len \in 0..MaxLen, seed \in {0, 101}}

ClockSteps == {25, 50}

InitCodec ==
    /\ ConnInit
    /\ ev = Ev("off", 0, "none")
    /\ bc = BcIdle
    /\ attempted = {}
    /\ failed = "none"
    /\ present = {}
    /\ StartIdle
    /\ wmsg \in EncodedMessages
    /\ wpc = "call"
    /\ woff = 0
    /\ frames = <<>>
    /\ writeTimes = <<>>
    /\ delays = 0
    /\ now = 0
    /\ timerAt = 0

CodecFrame == UNCHANGED <<connVars, ev, bcVars, startVars, pairVars, serverVars, rxVars, wmsg>>

\* writeBluetoothMessage is called: up to the first await writeValue
WriteCalled ==
    /\ wpc = "call"
    /\ IF FitsOneFrame(Len(wmsg))
       THEN /\ frames' = Append(frames, wmsg)
            /\ wpc' = "writeWhole"
       ELSE /\ frames' = Append(frames, ChunkAt(wmsg, 0))
            /\ wpc' = "writeChunk"
    /\ writeTimes' = Append(writeTimes, now)
    /\ UNCHANGED <<woff, delays, now, timerAt>>
    /\ CodecFrame

\* the awaited writeValue settles: a rejection is logged and rethrown; in the
\* loop a fulfilled write is followed by setTimeout(resolve, 50)
WriteSettles(ok) ==
    /\ wpc \in {"writeWhole", "writeChunk"}
    /\ (ok /\ bc.pc = "btwrite") => gatt[bc.cur]
    /\ IF ~ok
       THEN /\ wpc' = "thrown"
            /\ UNCHANGED <<delays, timerAt>>
       ELSE IF wpc = "writeWhole"
       THEN /\ wpc' = "done"
            /\ UNCHANGED <<delays, timerAt>>
       ELSE /\ wpc' = "pacing"
            /\ delays' = delays + 1
            /\ timerAt' = now + PacingDelay
    /\ UNCHANGED <<woff, frames, writeTimes, now>>
    /\ CodecFrame

\* the pacing timer fires: i += maxChunkSize, and the next chunk is written
\* or the loop ends
PacingElapsed ==
    /\ wpc = "pacing"
    /\ now >= timerAt
    /\ woff' = woff + maxChunkSize
    /\ IF woff' < Len(wmsg)
       THEN /\ frames' = Append(frames, ChunkAt(wmsg, woff'))
            /\ writeTimes' = Append(writeTimes, now)
            /\ wpc' = "writeChunk"
       ELSE /\ wpc' = "done"
            /\ UNCHANGED <<frames, writeTimes>>
    /\ UNCHANGED <<delays, now, timerAt>>
    /\ CodecFrame

\* time passes
CodecTick(d) ==
    /\ wpc \in {"writeWhole", "writeChunk", "pacing"}
    /\ now + d <= MaxTime
    /\ now' = now + d
    /\ UNCHANGED <<wpc, woff, frames, writeTimes, delays, timerAt>>
    /\ CodecFrame

NextCodec ==
    \/ WriteCalled
    \/ \E ok \in BOOLEAN : WriteSettles(ok)
    \/ PacingElapsed
    \/ \E d \in ClockSteps : CodecTick(d)

SpecCodec == InitCodec /\ [][NextCodec]_vars

(***************************************************************************)
(* SpecDeliver: sendMessage with the awaited writeBluetoothMessage of each *)
(* constrained connection taken frame by frame, as SpecCodec does.  The    *)
(* serialised envelope (type, content, sender, timestamp, id) is longer    *)
(* than one frame.  Devices disconnect while the broadcast is in progress. *)
(***************************************************************************)
EnvelopeLen == 25

Envelope == [k \in 1..EnvelopeLen |-> ByteAt(0, k)]

\* the loop calls writeBluetoothMessage(characteristic, messageData): up to
\* the first await writeValue
BluetoothWriteStarts ==
    /\ bc.pc = "btwrite"
    /\ wpc = "none"
    /\ wmsg' = Envelope
    /\ IF FitsOneFrame(Len(wmsg'))
       THEN /\ frames' = << wmsg' >>
            /\ wpc' = "writeWhole"
       ELSE /\ frames' = << ChunkAt(wmsg', 0) >>
            /\ wpc' = "writeChunk"
    /\ writeTimes' = << now >>
    /\ UNCHANGED <<woff, delays, now, timerAt>>
    /\ UNCHANGED <<connVars, ev, bcVars, startVars, pairVars, serverVars, rxVars>>

\* writeBluetoothMessage returns or throws into the loop of sendMessage
BluetoothWriteReturns ==
    /\ bc.pc = "btwrite"
    /\ wpc \in {"done", "thrown"}
    /\ ev' = IF Recording THEN Ev("writeBluetoothMessage", 0, bc.cur) ELSE ev
    /\ wmsg' = <<>>
    /\ wpc' = "none"
    /\ woff' = 0
    /\ frames' = <<>>
    /\ writeTimes' = <<>>
    /\ delays' = 0
    /\ UNCHANGED <<now, timerAt>>
    /\ UNCHANGED <<connVars, startVars, pairVars, serverVars, rxVars>>
    /\ AfterBluetoothWrite(wpc = "done")

NextDeliver ==
    \/ BroadcastReturns
    \/ \E d \in Devices : GattDisconnected(d)
    \/ \E text \in {"", "help"}, failing \in SUBSET RemotePeers : sendMessage(text, failing)
    \/ BluetoothWriteStarts
    \/ \E ok \in BOOLEAN : WriteSettles(ok)
    \/ PacingElapsed
    \/ \E d \in ClockSteps : CodecTick(d)
    \/ BluetoothWriteReturns

SpecDeliver == InitSend /\ [][NextDeliver]_vars

(***************************************************************************)
(* SpecReceive: calls of writeBluetoothMessage on one characteristic, and  *)
(* handleBluetoothMessage at the other end.  The link delivers the value   *)
(* of every fulfilled writeValue, in order and without loss, as one        *)
(* characteristicvaluechanged event.  JSON text is a sequence of bytes: an *)
(* opening brace, a byte for the type, the bytes of the content, a closing *)
(* brace; the content holds no brace.                                      *)
(***************************************************************************)
ContentLens == {1, maxChunkSize - 3, maxChunkSize - 2, MaxLen - 3}

LogicalMessages ==
    {[type |-> t, content |-> [k \in 1..n |-> 97 + (k % 26)]] :
        t \in {"message", "emergency", "bluetooth-handshake"}, n \in ContentLens}

TypeByte(t) ==
    CASE t = "message" -> 109
      [] t = "emergency" -> 101
      [] t = "bluetooth-handshake" -> 104

TypeOfByte(b) ==
    CASE b = 109 -> "message"
      [] b = 101 -> "emergency"
      [] b = 104 -> "bluetooth-handshake"
      [] OTHER -> "none"

\* encoder.encode(JSON.stringify(data))
JSONStringify(m) == << 123, TypeByte(m.type) >> \o m.content \o << 125 >>

\* JSON.parse(decoder.decode(event.target.value)): ok is FALSE where it throws
JSONParse(bytes) ==
    IF /\ Len(bytes) >= 3
       /\ bytes[1] = 123
       /\ bytes[Len(bytes)] = 125
       /\ TypeOfByte(bytes[2]) # "none"
       /\ \A k \in 3..(Len(bytes) - 1) : bytes[k] \notin {123, 125}
    THEN [ok |-> TRUE, type |-> TypeOfByte(bytes[2]),
          content |-> SubSeq(bytes, 3, Len(bytes) - 1)]
    ELSE [ok |-> FALSE, type |-> "none", content |-> <<>>]

\* what handleBluetoothMessage makes of one event value
PayloadOf(bytes) == IF JSONParse(bytes).ok THEN JSONParse(bytes).type ELSE "garbled"

\* the frames of the call whose writeValue was fulfilled
Deliverable ==
    IF wpc \in {"writeWhole", "writeChunk", "thrown"} THEN Len(frames) - 1 ELSE Len(frames)

InitReceive ==
    /\ ConnInit
    /\ ev = Ev("off", 0, "none")
    /\ bc = BcIdle
    /\ attempted = {}
    /\ failed = "none"
    /\ present = {}
    /\ StartIdle
    /\ wmsg \in {JSONStringify(m) : m \in LogicalMessages}
    /\ wpc = "call"
    /\ woff = 0
    /\ frames = <<>>
    /\ writeTimes = <<>>
    /\ delays = 0
    /\ now = 0
    /\ timerAt = 0

\* characteristicvaluechanged with the next frame: handleBluetoothMessage(event)
FrameReceived ==
    /\ delivered < Deliverable
    /\ delivered' = delivered + 1
    /\ LET value == frames[delivered + 1]
       IN /\ handed' =
                IF "displayed" \in handleBluetoothMessage(PayloadOf(value))
                THEN Append(handed, [type |-> JSONParse(value).type,
                                     content |-> JSONParse(value).content])
                ELSE handed
          /\ dropped' = IF PayloadOf(value) = "garbled" THEN dropped + 1 ELSE dropped
    /\ UNCHANGED <<calls, other>>
    /\ UNCHANGED <<connVars, ev, bcVars, codecVars, startVars, pairVars, serverVars>>

\* the next call of writeBluetoothMessage on the characteristic, once the
\* call before has settled and its frames have arrived
WriteAgain(m) ==
    /\ wpc \in {"done", "thrown"}
    /\ delivered = Deliverable
    /\ calls < MaxCalls
    /\ calls' = calls + 1
    /\ wmsg' = JSONStringify(m)
    /\ wpc' = "call"
    /\ woff' = 0
    /\ frames' = <<>>
    /\ writeTimes' = <<>>
    /\ delays' = 0
    /\ delivered' = 0
    /\ UNCHANGED <<now, timerAt, handed, dropped, other>>
    /\ UNCHANGED <<connVars, ev, bcVars, startVars, pairVars, serverVars>>

NextReceive ==
    \/ WriteCalled
    \/ \E ok \in BOOLEAN : WriteSettles(ok)
    \/ PacingElapsed
    \/ \E d \in ClockSteps : CodecTick(d)
    \/ FrameReceived
    \/ \E m \in LogicalMessages : WriteAgain(m)

SpecReceive == InitReceive /\ [][NextReceive]_vars

(***************************************************************************)
(* SpecOverlap: two calls of writeBluetoothMessage on one characteristic   *)
(* that overlap in time: the handshake connectBluetoothDevice sends after  *)
(* it has registered the connection and the write of a broadcast that      *)
(* finds the entry, or the writes of two broadcasts.  A writeValue is      *)
(* started only while no other is in flight on the characteristic.         *)
(***************************************************************************)
InFlight(pc) == pc \in {"writeWhole", "writeChunk"}

OverlapFrame ==
    /\ UNCHANGED <<connVars, ev, bcVars, startVars, pairVars, serverVars>>
    /\ UNCHANGED <<wmsg, wpc, woff, writeTimes, delays, timerAt>>
    /\ UNCHANGED <<delivered, handed, dropped, calls>>

\* the second call: up to its first await writeValue
OtherCalled(m) ==
    /\ other.pc = "none"
    /\ wpc \notin {"call", "writeWhole", "writeChunk"}
    /\ LET bytes == JSONStringify(m)
           first == IF FitsOneFrame(Len(bytes)) THEN bytes ELSE ChunkAt(bytes, 0)
       IN  /\ frames' = Append(frames, first)
           /\ other' = [msg |-> bytes,
                        pc |-> IF FitsOneFrame(Len(bytes)) THEN "writeWhole" ELSE "writeChunk",
                        off |-> 0, timerAt |-> 0, at |-> {Len(frames) + 1}]
    /\ UNCHANGED now
    /\ OverlapFrame

\* its awaited writeValue settles
OtherSettles(ok) ==
    /\ InFlight(other.pc)
    /\ other' = IF ~ok THEN [other EXCEPT !.pc = "thrown"]
                ELSE IF other.pc = "writeWhole" THEN [other EXCEPT !.pc = "done"]
                ELSE [other EXCEPT !.pc = "pacing", !.timerAt = now + PacingDelay]
    /\ UNCHANGED <<frames, now>>
    /\ OverlapFrame

\* its pacing timer fires
OtherPacingElapsed ==
    /\ other.pc = "pacing"
    /\ now >= other.timerAt
    /\ ~InFlight(wpc)
    /\ LET off == other.off + maxChunkSize
       IN  IF off < Len(other.msg)
           THEN /\ frames' = Append(frames, ChunkAt(other.msg, off))
                /\ other' = [other EXCEPT !.pc = "writeChunk", !.off = off,
                                          !.at = other.at \cup {Len(frames) + 1}]
           ELSE /\ other' = [other EXCEPT !.pc = "done", !.off = off]
                /\ UNCHANGED frames
    /\ UNCHANGED now
    /\ OverlapFrame

\* time passes while a call is in progress
OverlapTick(d) ==
    /\ wpc \in {"writeWhole", "writeChunk", "pacing"}
          \/ other.pc \in {"writeWhole", "writeChunk", "pacing"}
    /\ now + d <= MaxTime
    /\ now' = now + d
    /\ UNCHANGED <<wpc, woff, frames, writeTimes, delays, timerAt>>
    /\ CodecFrame

NextOverlap ==
    \/ WriteCalled
    \/ \E ok \in BOOLEAN : WriteSettles(ok)
    \/ ~InFlight(other.pc) /\ PacingElapsed
    \/ \E d \in ClockSteps : OverlapTick(d)
    \/ \E m \in LogicalMessages : OtherCalled(m)
    \/ \E ok \in BOOLEAN : OtherSettles(ok)
    \/ OtherPacingElapsed

SpecOverlap == InitReceive /\ [][NextOverlap]_vars

(***************************************************************************)
(* SpecStart: the discovery controller from page load, with the clock.     *)
(* A timer fires when the clock stands at its time, and the clock does not *)
(* pass a timer that is due; of two timers due at once the one set first   *)
(* fires first.                                                            *)
(***************************************************************************)
Priorities == {"webrtc", "bluetooth", "local"}

StartupDelay == 2000

ProbeInterval == 10000

RediscoveryInterval == 30000

FallbackDelay == 2000

SettingsScanDelay == 1000

ConnectFallbackDelay == 1000

StartClockStep == 1000

Timer(what, at) == [what |-> what, at |-> at]

Scan(kind, by) == [kind |-> kind, by |-> by, at |-> now]

\* the two delays are exchanged
StaggerTimers_Swapped(t) ==
    << Timer("staggerBluetooth", t + 3000), Timer("staggerLocal", t + 1000),
       Timer("rediscovery", t + RediscoveryInterval) >>

\* the three timers startAutoDiscovery sets
StaggerTimers(t) ==
    << Timer("staggerBluetooth", t + 1000), Timer("staggerLocal", t + 3000),
       Timer("rediscovery", t + RediscoveryInterval) >>

\* startAutoDiscovery(): nothing unless autoConnect
startAutoDiscovery(t) == IF autoConnect THEN StaggerTimers(t) ELSE <<>>

\* monitorConnectionQuality(): the interval of the probe
ProbeTimer(t) == << Timer("probe", t + ProbeInterval) >>

\* the timers saveSettings sets
SettingsTimers(auto, priority, t) ==
    IF auto /\ priority = "bluetooth" THEN << Timer("settingsBluetooth", t + SettingsScanDelay) >>
    ELSE IF auto /\ priority = "local" THEN << Timer("settingsLocal", t + SettingsScanDelay) >>
    ELSE <<>>

\* the count of connections is not looked at
RediscoveryDue_IgnoresCount(auto, total) == auto

\* if (this.autoConnect && this.getTotalConnections() < 3) this.refreshDevices()
RediscoveryDue(auto, total) == auto /\ total < 3

\* the scans a timer's callback starts, and the timers it sets
TimerScans(what) ==
    CASE what = "staggerBluetooth" ->
           IF connectionPriority \in {"bluetooth", "webrtc"}
           THEN << Scan("bluetooth", "stagger") >> ELSE <<>>
      [] what = "staggerLocal" ->
           IF connectionPriority \in {"local", "webrtc"}
           THEN << Scan("local", "stagger") >> ELSE <<>>
      [] what = "settingsBluetooth" -> << Scan("bluetooth", "settings") >>
      [] what = "settingsLocal" -> << Scan("local", "settings") >>
      [] what = "fallbackBluetooth" -> << Scan("bluetooth", "fallback") >>
      [] what = "connectFallback" -> << Scan("bluetooth", "connectFallback") >>
      [] what = "rediscovery" ->
           IF RediscoveryDue(autoConnect, getTotalConnections)
              /\ (connectionPriority = "local" \/ autoConnect)
           THEN << Scan("local", "rediscovery") >> ELSE <<>>
      [] OTHER -> <<>>

TimerSets(what) ==
    CASE what = "startup" -> startAutoDiscovery(now) \o ProbeTimer(now)
      [] what = "rediscovery" -> << Timer("rediscovery", now + RediscoveryInterval) >>
      [] what = "probe" -> ProbeTimer(now)
      [] OTHER -> <<>>

RemoveAt(seq, k) == [j \in 1..(Len(seq) - 1) |-> IF j < k THEN seq[j] ELSE seq[j + 1]]

InitStart ==
    /\ ConnInit
    /\ ev = Ev("off", 0, "none")
    /\ bc = BcIdle
    /\ attempted = {}
    /\ failed = "none"
    /\ present = {}
    /\ CodecIdle

StartFrame ==
    /\ ev' = IF Recording THEN Ev("start", 0, "none") ELSE ev
    /\ UNCHANGED <<connVars, bcVars, pairVars, serverVars, rxVars, wmsg, wpc, woff, frames, writeTimes, delays, timerAt>>

\* DOMContentLoaded: the constructor, then setTimeout(..., 2000)
DOMContentLoaded ==
    /\ ~started
    /\ started' = TRUE
    /\ autoConnect' = TRUE
    /\ connectionPriority' = "webrtc"
    /\ timers' = << Timer("startup", now + StartupDelay) >>
    /\ UNCHANGED <<thisPeer, scanLog, scanEnded, saves, peerErrors, now>>
    /\ StartFrame

\* the first timer that is due fires; the probe's interval is ProbeFires
TimerFires ==
    /\ started
    /\ \E k \in 1..Len(timers) :
         /\ timers[k].at <= now
         /\ timers[k].what # "probe"
         /\ \A j \in 1..(k - 1) : timers[j].at > now
         /\ scanLog' = scanLog \o TimerScans(timers[k].what)
         /\ timers' = RemoveAt(timers, k) \o TimerSets(timers[k].what)
    /\ UNCHANGED <<started, thisPeer, autoConnect, connectionPriority, scanEnded, saves, peerErrors, now>>
    /\ StartFrame

\* the user saves the settings
saveSettings(newPriority, newAutoConnect) ==
    /\ started
    /\ saves < MaxSaves
    /\ saves' = saves + 1
    /\ connectionPriority' = newPriority
    /\ autoConnect' = newAutoConnect
    /\ timers' = timers \o SettingsTimers(newAutoConnect, newPriority, now)
    /\ UNCHANGED <<started, thisPeer, scanLog, scanEnded, peerErrors, now>>
    /\ StartFrame

\* the interval of monitorConnectionQuality fires, being the first timer
\* that is due: one pass over the direct registry, failing the peers whose
\* connection.send throws
ProbeFires(failing) ==
    /\ started
    /\ bc.pc # "done"
    /\ failing \subseteq RegKeys(connections)
    /\ \E k \in 1..Len(timers) :
         /\ timers[k].at <= now
         /\ timers[k].what = "probe"
         /\ \A j \in 1..(k - 1) : timers[j].at > now
         /\ timers' = RemoveAt(timers, k) \o ProbeTimer(now)
    /\ connections' = ProbeRegistry(connections, HandleOpen, failing)
    /\ ev' = IF Recording
             THEN [Ev("probe", 0, "none") EXCEPT
                      !.set = failing, !.pings = ProbePings(connections, HandleOpen)]
             ELSE ev
    /\ UNCHANGED <<hstate, hpeer, torn, bluetoothConnections, gatt, btpc>>
    /\ BcFollows
    /\ UNCHANGED <<started, thisPeer, autoConnect, connectionPriority, scanLog, scanEnded, saves,
                   peerErrors, now>>
    /\ UNCHANGED <<pairVars, serverVars, rxVars, wmsg, wpc, woff, frames, writeTimes, delays, timerAt>>

\* the fallback is scheduled whatever the registry holds
FallbackTimers_Always(reg, t) == << Timer("fallbackBluetooth", t + FallbackDelay) >>

\* if (this.bluetoothConnections.size === 0) setTimeout(scanBluetoothDevices, 2000)
FallbackTimers(reg, t) ==
    IF RegSize(reg) = 0 THEN << Timer("fallbackBluetooth", t + FallbackDelay) >> ELSE <<>>

\* peer.on('error'): with no constrained connection, a scan 2 s later
PeerError ==
    /\ started
    /\ peerErrors < MaxPeerErrors
    /\ peerErrors' = peerErrors + 1
    /\ timers' = timers \o FallbackTimers(bluetoothConnections, now)
    /\ UNCHANGED <<started, thisPeer, autoConnect, connectionPriority, scanLog, scanEnded, saves, now>>
    /\ StartFrame

\* the instant the clock moves to: a step on, or the next timer if sooner
NextInstant ==
    LET step == now + StartClockStep
        sooner == {timers[k].at : k \in 1..Len(timers)} \cap (now..step)
    IN  IF sooner = {} THEN step ELSE CHOOSE t \in sooner : \A u \in sooner : t <= u

\* time passes, no timer being due
StartTick ==
    /\ started
    /\ \A k \in 1..Len(timers) : timers[k].at > now
    /\ NextInstant <= MaxStartTime
    /\ now' = NextInstant
    /\ UNCHANGED startVars
    /\ StartFrame

NextStart ==
    \/ DOMContentLoaded
    \/ TimerFires
    \/ \E p \in Priorities, a \in BOOLEAN : saveSettings(p, a)
    \/ PeerError
    \/ StartTick
    \/ \E failing \in SUBSET RemotePeers : ProbeFires(failing)

SpecStart == InitStart /\ [][NextStart]_vars

(***************************************************************************)
(* SpecDisconnect: the direct connections to the remote peers and the      *)
(* constrained connection to one device, opened, lost and disconnected by  *)
(* the user.  The event history is kept.                                   *)
(***************************************************************************)
NextDisconnect ==
    \/ \E p \in RemotePeers : connectToPeer(p)
    \/ \E h \in Handles : ConnOpen(h)
    \/ \E h \in Handles : ConnClose(h)
    \/ \E p \in RemotePeers : disconnectPeer(p)
    \/ \E d \in OpenDevices : connectBluetoothDevice(d)
    \/ \E d \in OpenDevices, ok \in BOOLEAN : GattConnectDone(d, ok)
    \/ \E d \in OpenDevices, ok \in BOOLEAN : GetServiceDone(d, ok)
    \/ \E d \in OpenDevices, ok \in BOOLEAN : GetCharacteristicDone(d, ok)
    \/ \E d \in OpenDevices, ok \in BOOLEAN : StartNotificationsDone(d, ok)
    \/ \E d \in OpenDevices, ok \in BOOLEAN : HandshakeDone(d, ok)
    \/ \E d \in OpenDevices, ok \in BOOLEAN, chars \in CharacteristicTables :
           GenericWalkDone(d, ok, chars)
    \/ \E d \in OpenDevices, ok \in BOOLEAN : GenericNotificationsDone(d, ok)
    \/ \E d \in OpenDevices : GattDisconnected(d)
    \/ \E d \in OpenDevices : disconnectBluetoothDevice(d)

SpecDisconnect == InitBluetooth /\ [][NextDisconnect]_vars

(***************************************************************************)
(* SpecScan: the discovery controller of SpecStart with the scans running  *)
(* to their end.  scanBluetoothDevices awaits the device chooser and then  *)
(* connectBluetoothDevice, and returns when both have settled;             *)
(* scanLocalNetwork awaits ten probes of 100 ms each, one after the other. *)
(* The user starts scans with the two scan buttons.                        *)
(***************************************************************************)
MaxUserScans == 1

ScanKinds == {"bluetooth", "local"}

\* localIPs.slice(0, 10)
LocalProbes == 10

\* pingLocalDevice: setTimeout(..., 100)
ProbeDelay == 100

LocalScanTime == LocalProbes * ProbeDelay

\* the scans of a kind that were started and have not returned
InProgress(kind) == {k \in (1..Len(scanLog)) \ scanEnded : scanLog[k].kind = kind}

UserScans == {k \in 1..Len(scanLog) : scanLog[k].by = "user"}

\* a click on scan-bluetooth or scan-local: the handler calls the scan
UserScan(kind) ==
    /\ started
    /\ Cardinality(UserScans) < MaxUserScans
    /\ scanLog' = Append(scanLog, Scan(kind, "user"))
    /\ UNCHANGED <<started, thisPeer, autoConnect, connectionPriority, timers, scanEnded, saves,
                   peerErrors, now>>
    /\ StartFrame

\* a scan returns: a local one once its probes have run, a constrained one
\* when the chooser and the connect it awaits have settled
ScanReturns(k) ==
    /\ k \in (1..Len(scanLog)) \ scanEnded
    /\ scanLog[k].kind = "local" => scanLog[k].at + LocalScanTime <= now
    /\ scanEnded' = scanEnded \cup {k}
    /\ UNCHANGED <<started, thisPeer, autoConnect, connectionPriority, timers, scanLog, saves,
                   peerErrors, now>>
    /\ StartFrame

\* time passes: the local scans whose probes have run have returned
ScanTick ==
    /\ \A k \in InProgress("local") : now < scanLog[k].at + LocalScanTime
    /\ StartTick

NextScan ==
    \/ DOMContentLoaded
    \/ TimerFires
    \/ \E p \in Priorities, a \in BOOLEAN : saveSettings(p, a)
    \/ PeerError
    \/ ScanTick
    \/ \E kind \in ScanKinds : UserScan(kind)
    \/ \E k \in 1..Len(scanLog) : ScanReturns(k)

SpecScan == InitStart /\ [][NextScan]_vars

(***************************************************************************)
(* SpecFallback: the fallback controller.  The clock and the timers are    *)
(* those of SpecStart; the direct transport fails (the peer reports an     *)
(* error, peer.connect throws, a connection reports an error) and the      *)
(* constrained registry holds what earlier connects left in it.  The event *)
(* history is kept.  It starts 5 s after page load, the stagger done.      *)
(***************************************************************************)
\* the discovery controller 5 s after page load with the settings as they
\* start: both scans of the stagger have been started, the two intervals
\* are pending
AfterStagger ==
    /\ started = TRUE
    /\ thisPeer = TRUE
    /\ autoConnect = TRUE
    /\ connectionPriority = "webrtc"
    /\ timers = << Timer("rediscovery", StartupDelay + RediscoveryInterval),
                   Timer("probe", StartupDelay + ProbeInterval) >>
    /\ scanLog = << [kind |-> "bluetooth", by |-> "stagger", at |-> 3000],
                    [kind |-> "local", by |-> "stagger", at |-> 5000] >>
    /\ scanEnded = {}
    /\ saves = 0
    /\ peerErrors = 0

TimersOf(ts, what) == {k \in 1..Len(ts) : ts[k].what = what}

InitFallback ==
    /\ hstate = [h \in Handles |-> "free"]
    /\ hpeer = [h \in Handles |-> "none"]
    /\ torn = [h \in Handles |-> FALSE]
    /\ connections = <<>>
    /\ bluetoothConnections \in InitialBluetooth
    /\ gatt = [d \in Devices |-> RegHas(bluetoothConnections, d)]
    /\ btpc = [d \in Devices |-> "idle"]
    /\ ev = Ev("init", 0, "none")
    /\ bc = BcIdle
    /\ attempted = {}
    /\ failed = "none"
    /\ present = {}
    /\ wmsg = <<>>
    /\ wpc = "none"
    /\ woff = 0
    /\ frames = <<>>
    /\ writeTimes = <<>>
    /\ delays = 0
    /\ now = 5000
    /\ timerAt = 0
    /\ PairIdle
    /\ AfterStagger

\* connectToPeer: peer.connect (or setupConnection) throws, and the catch
\* schedules a constrained scan 1 s later
connectToPeerThrows ==
    /\ started
    /\ Cardinality(TimersOf(timers, "connectFallback"))
         + Cardinality({k \in 1..Len(scanLog) : scanLog[k].by = "connectFallback"})
           < MaxConnectThrows
    /\ timers' = Append(timers, Timer("connectFallback", now + ConnectFallbackDelay))
    /\ ev' = Ev("connectToPeerThrows", 0, "none")
    /\ UNCHANGED <<started, thisPeer, autoConnect, connectionPriority, scanLog, scanEnded, saves,
                   peerErrors, now>>
    /\ UNCHANGED <<connVars, bcVars, pairVars, serverVars, rxVars, wmsg, wpc, woff, frames, writeTimes, delays, timerAt>>

NextFallback ==
    \/ TimerFires
    \/ \E failing \in SUBSET RemotePeers : ProbeFires(failing)
    \/ PeerError
    \/ StartTick
    \/ connectToPeerThrows
    \/ \E p \in RemotePeers : connectToPeer(p)
    \/ \E h \in Handles : ConnError(h)
    \/ \E d \in Devices : GattDisconnected(d)

SpecFallback == InitFallback /\ [][NextFallback]_vars

(***************************************************************************)
(* The connect form.  The text of the remote-peer-id field is a short      *)
(* sequence of characters, " " being white space; connectToPeer trims it,  *)
(* returns with a warning when nothing is left or when this.peer was never *)
(* made, and otherwise connects, scheduling a Bluetooth scan when          *)
(* peer.connect throws.                                                    *)
(***************************************************************************)
MaxInput == 3

IdChars == {" ", "B", "C"}

RECURSIVE TrimStart(_)
TrimStart(text) ==
    IF text # <<>> /\ Head(text) = " " THEN TrimStart(Tail(text)) ELSE text

RECURSIVE TrimEnd(_)
TrimEnd(text) ==
    IF text # <<>> /\ text[Len(text)] = " "
    THEN TrimEnd(SubSeq(text, 1, Len(text) - 1))
    ELSE text

\* String.prototype.trim
Trim(text) == TrimEnd(TrimStart(text))

\* what the field can hold: blank texts and the ids of the remote peers,
\* with or without white space around them
PeerIdInputs ==
    {text \in UNION {[1..n -> IdChars] : n \in 0..MaxInput} : Len(Trim(text)) <= 1}

PeerNamed(remotePeerId) == IF remotePeerId = <<"B">> THEN "peerB" ELSE "peerC"

\* the first guard alone
Refuses_BlankOnly(remotePeerId) == remotePeerId = <<>>

\* the two guards of connectToPeer
Refuses(remotePeerId) == remotePeerId = <<>> \/ ~thisPeer

RefusalToast(remotePeerId) ==
    IF remotePeerId = <<>> THEN "Please enter a peer ID to connect"
    ELSE "WebRTC not available, try Bluetooth connection"

connectToPeerInput(text, throws) ==
    LET remotePeerId == Trim(text) IN
    IF Refuses(remotePeerId)
    THEN /\ ~throws
         /\ Runs([Ev("connectToPeer", 0, RefusalToast(remotePeerId))
                    EXCEPT !.set = {"warning"}])
         /\ UNCHANGED connVars
         /\ UNCHANGED bcVars
    ELSE IF throws
         THEN connectToPeerThrows
         ELSE connectToPeer(PeerNamed(remotePeerId))

\* the page has started; initializePeer made the Peer or caught its failure
InitConnect ==
    /\ hstate = [h \in Handles |-> "free"]
    /\ hpeer = [h \in Handles |-> "none"]
    /\ torn = [h \in Handles |-> FALSE]
    /\ connections = <<>>
    /\ bluetoothConnections \in InitialBluetooth
    /\ gatt = [d \in Devices |-> RegHas(bluetoothConnections, d)]
    /\ btpc = [d \in Devices |-> "idle"]
    /\ ev = Ev("init", 0, "none")
    /\ bc = BcIdle
    /\ attempted = {}
    /\ failed = "none"
    /\ present = {}
    /\ wmsg = <<>>
    /\ wpc = "none"
    /\ woff = 0
    /\ frames = <<>>
    /\ writeTimes = <<>>
    /\ delays = 0
    /\ now = 5000
    /\ timerAt = 0
    /\ PairIdle
    /\ started = TRUE
    /\ thisPeer \in BOOLEAN
    /\ autoConnect = TRUE
    /\ connectionPriority = "webrtc"
    /\ timers = <<>>
    /\ scanLog = <<>>
    /\ scanEnded = {}
    /\ saves = 0
    /\ peerErrors = 0

NextConnect ==
    \/ \E text \in PeerIdInputs, throws \in BOOLEAN : connectToPeerInput(text, throws)
    \/ \E h \in Handles : ConnOpen(h)
    \/ \E h \in Handles : ConnClose(h)
    \/ \E d \in Devices : GattDisconnected(d)
    \/ TimerFires
    \/ StartTick

SpecConnect == InitConnect /\ [][NextConnect]_vars

(***************************************************************************)
(* SpecPeriodic: the two intervals, periodic rediscovery (30 s) and the    *)
(* quality probe (10 s), over a minute.  It starts 5 s after page load     *)
(* with the registries the first connects left; the clock moves from one   *)
(* timer to the next, connections are lost and the settings are saved in   *)
(* between.  The event history is kept.                                    *)
(***************************************************************************)
InitPeriodic ==
    /\ connections \in InitialDirect
    /\ hstate = [h \in Handles |->
                   IF \E i \in 1..Len(connections) : connections[i].val = h
                   THEN "open" ELSE "free"]
    /\ hpeer = [h \in Handles |->
                  IF h = 1 /\ hstate[h] = "open" THEN "peerB"
                  ELSE IF h = 2 /\ hstate[h] = "open" THEN "peerC" ELSE "none"]
    /\ torn = [h \in Handles |-> FALSE]
    /\ bluetoothConnections \in InitialBluetooth
    /\ gatt = [d \in Devices |-> RegHas(bluetoothConnections, d)]
    /\ btpc = [d \in Devices |-> "idle"]
    /\ ev = Ev("init", 0, "none")
    /\ bc = BcIdle
    /\ attempted = {}
    /\ failed = "none"
    /\ present = {}
    /\ wmsg = <<>>
    /\ wpc = "none"
    /\ woff = 0
    /\ frames = <<>>
    /\ writeTimes = <<>>
    /\ delays = 0
    /\ now = 5000
    /\ timerAt = 0
    /\ PairIdle
    /\ AfterStagger

\* the time of the next timer
NextTimer ==
    CHOOSE t \in {timers[k].at : k \in 1..Len(timers)} :
        \A k \in 1..Len(timers) : t <= timers[k].at

\* time passes up to the next timer, none being due
PeriodicTick ==
    /\ started
    /\ timers # <<>>
    /\ \A k \in 1..Len(timers) : timers[k].at > now
    /\ NextTimer <= MaxPeriodicTime
    /\ now' = NextTimer
    /\ UNCHANGED startVars
    /\ StartFrame

NextPeriodic ==
    \/ TimerFires
    \/ \E failing \in SUBSET RemotePeers : ProbeFires(failing)
    \/ \E p \in Priorities, a \in BOOLEAN : saveSettings(p, a)
    \/ PeriodicTick
    \/ \E h \in Handles : ConnClose(h)
    \/ \E d \in Devices : GattDisconnected(d)

SpecPeriodic == InitPeriodic /\ [][NextPeriodic]_vars

(***************************************************************************)
(* SpecPair: two instances, peerA and peerB, and the direct connections    *)
(* between them.  Each instance has its own DataConnection object for a    *)
(* link and runs setupConnection on it; the handlers are those of the      *)
(* single-instance model.                                                  *)
(***************************************************************************)
Other(p) == IF p = "peerA" THEN "peerB" ELSE "peerA"

FreeLinks == {l \in Links : lfrom[l] = "none"}

InitPair ==
    /\ ConnInit
    /\ ev = Ev("init", 0, "none")
    /\ BcInit

PairFrame == UNCHANGED <<connVars, bcVars, codecVars, started, thisPeer, autoConnect,
                         connectionPriority, timers, scanLog, scanEnded, saves, peerErrors,
                         serverVars, rxVars>>

\* connectToPeer at p with the other's id: peer.connect, setupConnection
PairConnectToPeer(p) ==
    /\ FreeLinks # {}
    /\ LET l == CHOOSE x \in FreeLinks : \A y \in FreeLinks : x <= y
       IN  /\ lfrom' = [lfrom EXCEPT ![l] = p]
           /\ lside' = [lside EXCEPT ![l][p] = "connecting"]
           /\ ev' = Ev("pairConnect", l, p)
    /\ UNCHANGED preg
    /\ PairFrame

\* peer.on('connection') at the other instance: handleIncomingConnection
PairIncoming(l) ==
    /\ lfrom[l] # "none"
    /\ lside[l][Other(lfrom[l])] = "none"
    /\ lside' = [lside EXCEPT ![l][Other(lfrom[l])] = "connecting"]
    /\ ev' = Ev("pairIncoming", l, Other(lfrom[l]))
    /\ UNCHANGED <<preg, lfrom>>
    /\ PairFrame

\* conn.on('open') at p, once the other instance has the connection
PairOpen(l, p) ==
    /\ lside[l][p] = "connecting"
    /\ lside[l][Other(p)] \in {"connecting", "open"}
    /\ lside' = [lside EXCEPT ![l][p] = "open"]
    /\ preg' = [preg EXCEPT ![p] = OnOpenRegistry(preg[p], Other(p), l)]
    /\ ev' = Ev("pairOpen", l, p)
    /\ UNCHANGED lfrom
    /\ PairFrame

\* conn.on('close') at p: the other instance closed its side, or the link
\* was lost
PairClose(l, p) ==
    /\ lside[l][p] = "open"
    /\ lside' = [lside EXCEPT ![l][p] = "closed"]
    /\ preg' = [preg EXCEPT ![p] = OnCloseRegistry(preg[p], Other(p), l)]
    /\ ev' = Ev("pairClose", l, p)
    /\ UNCHANGED lfrom
    /\ PairFrame

\* conn.on('error') at p
PairError(l, p) ==
    /\ lside[l][p] \in {"connecting", "open"}
    /\ preg' = [preg EXCEPT ![p] = OnErrorRegistry(preg[p], Other(p), l)]
    /\ ev' = Ev("pairError", l, p)
    /\ UNCHANGED <<lfrom, lside>>
    /\ PairFrame

\* disconnectPeer at p with the other's id
PairDisconnectPeer(p) ==
    /\ RegHas(preg[p], Other(p))
    /\ LET l == RegGet(preg[p], Other(p))
       IN  /\ lside' = [lside EXCEPT ![l][p] = "closed"]
           /\ preg' = [preg EXCEPT ![p] =
                         RegDelete(IF lside[l][p] = "open"
                                   THEN OnCloseRegistry(preg[p], Other(p), l)
                                   ELSE preg[p], Other(p))]
           /\ ev' = Ev("pairDisconnect", l, p)
    /\ UNCHANGED lfrom
    /\ PairFrame

NextPair ==
    \/ \E p \in PairPeers : PairConnectToPeer(p)
    \/ \E l \in Links : PairIncoming(l)
    \/ \E l \in Links, p \in PairPeers : PairOpen(l, p)
    \/ \E l \in Links, p \in PairPeers : PairClose(l, p)
    \/ \E l \in Links, p \in PairPeers : PairError(l, p)
    \/ \E p \in PairPeers : PairDisconnectPeer(p)

SpecPair == InitPair /\ [][NextPair]_vars

(***************************************************************************)
(* SpecServer: the three /api/emergencies endpoints.  Each handler reads   *)
(* and writes the file synchronously, so a request is one step.  A request *)
(* body is the set of the fields id, timestamp and status it carries and   *)
(* their values; a status that is undefined is dropped by JSON.stringify,  *)
(* which is the status "absent" here.  The :id of a PUT is a string: a     *)
(* numeral, or one that is not a number.                                   *)
(***************************************************************************)
Bodies ==
    [has : SUBSET {"id", "timestamp", "status"},
     id : {MaxServerTime}, timestamp : {0}, status : {"resolved"}]

\* a PUT body carries a status or none
StatusBodies == {b \in Bodies : b.has \subseteq {"status"}}

IdParams == {[num |-> TRUE, v |-> n] : n \in 1..MaxServerTime} \cup {[num |-> FALSE, v |-> 0]}

\* { id: Date.now(), ...req.body, timestamp: new Date().toISOString(),
\*   status: 'pending' }: a later key replaces an earlier one
NewEmergency(body, t) ==
    [id |-> IF "id" \in body.has THEN body.id ELSE t,
     timestamp |-> t,
     status |-> "pending"]

\* emergencies.push(emergency)
Unshift_Push(list, e) == Append(list, e)

\* emergencies.unshift(emergency)
Unshift(list, e) == << e >> \o list

\* e.id === id
LooseEquals_Strict(eid, param) == FALSE

\* e.id == id, a number against the string of the route: the string is
\* converted to a number
LooseEquals(eid, param) == param.num /\ param.v = eid

\* emergencies.findIndex(e => e.id == id), 0 for -1
FindIndex(list, param) ==
    IF \E i \in 1..Len(list) : LooseEquals(list[i].id, param)
    THEN CHOOSE i \in 1..Len(list) :
            /\ LooseEquals(list[i].id, param)
            /\ \A j \in 1..(i - 1) : ~LooseEquals(list[j].id, param)
    ELSE 0

\* const { status } = req.body
RequestedStatus(body) == IF "status" \in body.has THEN body.status ELSE "absent"

ServerFrame == UNCHANGED <<connVars, ev, bcVars, codecVars, startVars, pairVars, rxVars>>

\* app.post('/api/emergencies')
PostEmergency(body) ==
    /\ Len(emergencies) < MaxRecords
    /\ req' = [op |-> "post", id |-> [num |-> FALSE, v |-> 0], body |-> body]
    /\ emergencies' = Unshift(emergencies, NewEmergency(body, serverNow))
    /\ res' = [code |-> 201, body |-> << NewEmergency(body, serverNow) >>]
    /\ created' = Append(created, NewEmergency(body, serverNow))
    /\ UNCHANGED serverNow
    /\ ServerFrame

\* app.get('/api/emergencies')
GetEmergencies ==
    /\ req' = [op |-> "get", id |-> [num |-> FALSE, v |-> 0], body |-> NoBody]
    /\ res' = [code |-> 200, body |-> emergencies]
    /\ UNCHANGED <<emergencies, serverNow, created>>
    /\ ServerFrame

\* app.put('/api/emergencies/:id')
\* the status of every record is set
PutEmergency_AllRecords(param, body) ==
    /\ req' = [op |-> "put", id |-> param, body |-> body]
    /\ LET index == FindIndex(emergencies, param)
       IN IF index # 0
          THEN /\ emergencies' = [i \in 1..Len(emergencies) |->
                                    [emergencies[i] EXCEPT !.status = RequestedStatus(body)]]
               /\ res' = [code |-> 200, body |-> << emergencies'[index] >>]
          ELSE /\ res' = [code |-> 404, body |-> <<>>]
               /\ UNCHANGED emergencies
    /\ UNCHANGED <<serverNow, created>>
    /\ ServerFrame

PutEmergency(param, body) ==
    /\ req' = [op |-> "put", id |-> param, body |-> body]
    /\ LET index == FindIndex(emergencies, param)
       IN IF index # 0
          THEN /\ emergencies' = [emergencies EXCEPT ![index].status = RequestedStatus(body)]
               /\ res' = [code |-> 200, body |-> << emergencies'[index] >>]
          ELSE /\ res' = [code |-> 404, body |-> <<>>]
               /\ UNCHANGED emergencies
    /\ UNCHANGED <<serverNow, created>>
    /\ ServerFrame

\* the server's clock advances
ServerTick ==
    /\ serverNow < MaxServerTime
    /\ serverNow' = serverNow + 1
    /\ UNCHANGED <<emergencies, req, res, created>>
    /\ ServerFrame

InitServer ==
    /\ ConnInit
    /\ ev = Ev("off", 0, "none")
    /\ BcInit

NextServer ==
    \/ \E body \in Bodies : PostEmergency(body)
    \/ GetEmergencies
    \/ \E param \in IdParams, body \in StatusBodies : PutEmergency(param, body)
    \/ ServerTick

SpecServer == InitServer /\ [][NextServer]_vars

(***************************************************************************)
(* Properties of the registries (SpecDirect, SpecBluetooth).               *)
(***************************************************************************)
OpenHandles == {h \in Handles : hstate[h] = "open"}

ConnectedDevices == {d \in Devices : gatt[d]}

\* C1: outside a connect attempt in progress, an entry is in a registry if
\* and only if its transport handle reports open/connected, and
\* getTotalConnections() is the number of handles reporting open
C1_EntryIffHandleOpen ==
    /\ \A h \in Handles :
          hstate[h] = "open" <=>
             (RegHas(connections, hpeer[h]) /\ RegGet(connections, hpeer[h]) = h)
    /\ \A d \in Devices :
          btpc[d] = "idle" => (gatt[d] <=> RegHas(bluetoothConnections, d))
    /\ (\A d \in Devices : btpc[d] = "idle") =>
          getTotalConnections = Cardinality(OpenHandles) + Cardinality(ConnectedDevices)

\* C9: a pass of the quality probe removes the entry of every direct
\* connection whose ping failed, keeps every other direct entry as it was, and
\* leaves the constrained registry as it was
C9_ProbeRemovesExactlyFailing ==
    [][ev'.op = "monitorConnectionQuality" =>
          /\ bluetoothConnections' = bluetoothConnections
          /\ RegKeys(connections') = RegKeys(connections) \ ev'.set
          /\ \A k \in RegKeys(connections') :
                RegGet(connections', k) = RegGet(connections, k)]_vars

C9_Witness ==
    /\ ev.op = "monitorConnectionQuality"
    /\ ev.set # {}
    /\ connections # <<>>
    /\ bluetoothConnections # <<>>

\* C10: a close or error event of a connection that has had one before
\* leaves both registries unchanged
C10_TeardownOnce ==
    [][(ev'.op \in {"close", "error"} /\ torn[ev'.h]) =>
          (connections' = connections /\ bluetoothConnections' = bluetoothConnections)]_vars

(***************************************************************************)
(* Properties of the fanout (SpecFanout).                                  *)
(***************************************************************************)
\* C2: when a broadcast has run, a send was called on every connection that
\* was registered from its invocation to its end, whichever sends failed
C2_FailureIsolation == bc.pc = "done" => present \subseteq attempted

C2_Witness ==
    /\ bc.pc = "done"
    /\ failed = "then"
    /\ Cardinality(present) >= 3
    /\ \E t \in attempted : t[1] = "direct"
    /\ \E t \in attempted : t[1] = "bluetooth"

\* C3: the count a broadcast reports is the number of connections it called
\* send on
C3_ReportedCountIsAttempted == bc.pc = "done" => bc.reported = Cardinality(attempted)

\* C8: with geolocation absent or denied the emergency message carries the
\* all-null location, and the broadcast calls send on every connection
\* registered from its invocation to its end
C8_DeniedLocationIsNull ==
    (bc.type = "emergency" /\ bc.geo \in {"absent", "denied"} /\ bc.pc \in {"btwrite", "done"}) =>
        /\ bc.location = NullLocation
        /\ bc.pc = "done" => present \subseteq attempted

C8_Witness ==
    /\ bc.type = "emergency"
    /\ bc.geo = "denied"
    /\ bc.pc = "done"
    /\ bc.location = NullLocation
    /\ Cardinality(present) >= 2
    /\ present \subseteq attempted

(***************************************************************************)
(* Properties of writeBluetoothMessage (SpecCodec).                        *)
(***************************************************************************)
RECURSIVE Concat(_)
Concat(fs) == IF fs = <<>> THEN <<>> ELSE Head(fs) \o Concat(Tail(fs))

FramesNeeded(len) == (len + maxChunkSize - 1) \div maxChunkSize

\* C4: for a message longer than 20 bytes the frames written are at most 20
\* bytes each, are the message cut at 0, 20, 40, ... in that order, and
\* consecutive writes are at least 50 ms apart; a call that returns has
\* written ceil(L/20) frames, whose concatenation is the message
C4_Segmentation ==
    Len(wmsg) > maxChunkSize =>
        /\ \A k \in 1..Len(frames) :
              /\ Len(frames[k]) <= maxChunkSize
              /\ frames[k] = Slice(wmsg, maxChunkSize * (k - 1), maxChunkSize * k)
        /\ \A k \in 1..(Len(writeTimes) - 1) : writeTimes[k + 1] - writeTimes[k] >= 50
        /\ wpc = "done" =>
              /\ Len(frames) = FramesNeeded(Len(wmsg))
              /\ Concat(frames) = wmsg

C4_Witness ==
    /\ Len(wmsg) = 45
    /\ wpc = "done"
    /\ Len(frames) = 3
    /\ Len(frames[3]) = 5

\* C5: for a message of at most 20 bytes exactly one write is made, of the
\* whole message, and no pacing timer is set
C5_SingleFrame ==
    (Len(wmsg) <= maxChunkSize /\ wpc # "call") =>
        /\ frames = <<wmsg>>
        /\ delays = 0
        /\ wpc \in {"writeWhole", "done", "thrown"}

C5_Witness ==
    /\ Len(wmsg) = 20
    /\ wpc = "done"
    /\ frames = <<wmsg>>

(***************************************************************************)
(* Properties of the discovery stagger (SpecStart).                        *)
(***************************************************************************)
StaggerScanAt(k, kind) == scanLog[k].by = "stagger" /\ scanLog[k].kind = kind

C6_PairRegistries ==
    /\ [][(ev'.op = "pairOpen" =>
              (/\ RegHas(preg'[ev'.key], Other(ev'.key))
               /\ RegGet(preg'[ev'.key], Other(ev'.key)) = ev'.h))
          /\ (ev'.op \in {"pairClose", "pairDisconnect"} =>
                 ~RegHas(preg'[ev'.key], Other(ev'.key)))]_vars
    /\ [](\A p \in PairPeers :
            RegHas(preg[p], Other(p)) => lside[RegGet(preg[p], Other(p))][p] = "open")

C6_Witness ==
    /\ ev.op = "pairClose"
    /\ \A p \in PairPeers : lside[ev.h][p] = "closed" /\ preg[p] = <<>>
    /\ \A l \in Links : l # ev.h => lfrom[l] = "none"

(***************************************************************************)
(* Properties of the handshake (SpecBluetooth).                            *)
(***************************************************************************)
\* C12: a handler that puts a connection into a registry (the open handler
\* of a direct connection, connectBluetoothDevice with the named service,
\* setupGenericBluetoothConnection) sends a handshake on it
C12_HandshakeOnEveryOpen ==
    [][((ev'.op = "open" /\ connections' # connections)
        \/ (ev'.op \in {"startNotifications", "setupGenericBluetoothConnection"}
            /\ bluetoothConnections' # bluetoothConnections))
       => (ev'.set \cap {"handshake", "bluetooth-handshake"}) # {}]_vars

(***************************************************************************)
(* Properties of the send operations (SpecSend).                           *)
(***************************************************************************)
SendInvoked == ev'.op \in {"sendMessage", "sendEmergencyAlert", "sendFile"}

\* a send operation invoked with both registries empty sends nothing,
\* displays nothing, changes no registry and lets no exception out
NoOpStep ==
    /\ bc' = BcIdle
    /\ attempted' = {}
    /\ connections' = connections
    /\ bluetoothConnections' = bluetoothConnections
    /\ "uncaught" \notin ev'.set

\* the statement with the warning given on every invocation
C11_NoConnectionsAlwaysWarns ==
    [][(SendInvoked /\ getTotalConnections = 0) => (NoOpStep /\ ev'.set = {"warning"})]_vars

\* C11: with both registries empty at the invocation, sendMessage,
\* sendEmergencyAlert and sendFile are no-ops; the no-connection warning is
\* shown when there is something to send (a non-empty input for sendMessage,
\* a selected file for sendFile)
C11_NoConnectionsNoOp ==
    [][(SendInvoked /\ getTotalConnections = 0) =>
          (NoOpStep /\ (ev'.key # "" => ev'.set = {"warning"}))]_vars

C11_Witness ==
    /\ ev.op \in {"sendMessage", "sendFile"}
    /\ ev.key # ""
    /\ ev.set = {"warning"}
    /\ getTotalConnections = 0
    /\ bc = BcIdle

(***************************************************************************)
(* Properties of the fallback controller (SpecFallback).                   *)
(***************************************************************************)
\* C13: when the peer reports an error with the constrained registry empty,
\* a constrained scan is set for 2 s later; with the registry not empty no
\* timer is set; no timer is ever overdue, and the fallback timer's firing
\* starts the scan at the time it was set for
C13_PeerErrorFallback ==
    /\ [][peerErrors' = peerErrors + 1 =>
            timers' = IF bluetoothConnections = <<>>
                      THEN Append(timers, [what |-> "fallbackBluetooth", at |-> now + 2000])
                      ELSE timers]_vars
    /\ [](\A k \in 1..Len(timers) : timers[k].at >= now)
    /\ [][Cardinality(TimersOf(timers', "fallbackBluetooth"))
             < Cardinality(TimersOf(timers, "fallbackBluetooth")) =>
            /\ \E k \in TimersOf(timers, "fallbackBluetooth") : timers[k].at = now
            /\ scanLog' = Append(scanLog, [kind |-> "bluetooth", by |-> "fallback", at |-> now])]_vars

C13_Witness ==
    /\ peerErrors = 1
    /\ \E k \in 1..Len(scanLog) : scanLog[k].by = "fallback"
    /\ bluetoothConnections = <<>>

\* a direct connect attempt fails: peer.connect throws, or the connection
\* reports an error before it has opened
ConnectFailed ==
    \/ ev'.op = "connectToPeerThrows"
    \/ ev'.op = "error" /\ hstate[ev'.h] = "connecting"

\* C14: every failure of a direct connect attempt sets a constrained scan
\* for 1 s later
C14_ConnectFailureSchedulesScan ==
    [][ConnectFailed =>
         timers' = Append(timers, [what |-> "connectFallback", at |-> now + 1000])]_vars

(***************************************************************************)
(* Properties of the two intervals (SpecPeriodic).                         *)
(***************************************************************************)
\* the timer of the given kind is due and fires in this step
Fires(what) ==
    /\ \E k \in TimersOf(timers, what) : timers[k].at = now
    /\ \A k \in TimersOf(timers', what) : timers'[k].at > now

\* C15: the rediscovery timer comes every 30 s; when it fires, discovery is
\* run again exactly if auto-connect is on and fewer than 3 connections are
\* registered at that moment, whatever the settings were before
C15_PeriodicRediscovery ==
    /\ [](\A k \in TimersOf(timers, "rediscovery") :
            timers[k].at > 2000 /\ (timers[k].at - 2000) % 30000 = 0)
    /\ [][Fires("rediscovery") =>
            /\ scanLog' = IF autoConnect /\ getTotalConnections < 3
                          THEN Append(scanLog, [kind |-> "local", by |-> "rediscovery",
                                                at |-> now])
                          ELSE scanLog
            /\ \E k \in TimersOf(timers', "rediscovery") : timers'[k].at = now + 30000]_vars

C15_Witness ==
    /\ now = 62000
    /\ saves = 1
    /\ \E k \in 1..Len(scanLog) : scanLog[k].by = "rediscovery" /\ scanLog[k].at = 62000
    /\ \A k \in 1..Len(scanLog) : scanLog[k].by = "rediscovery" => scanLog[k].at # 32000

\* C16: the probe comes every 10 s; a pass pings every direct connection
\* in the registry whose handle is open, once, and the registry after the
\* pass has lost exactly the connections whose ping failed
C16_ProbeEveryTenSeconds ==
    /\ [](\A k \in TimersOf(timers, "probe") :
            timers[k].at > 2000 /\ (timers[k].at - 2000) % 10000 = 0)
    /\ [][Fires("probe") =>
            /\ ev'.op = "probe"
            /\ ev'.pings = {connections[i].key :
                               i \in {k \in 1..Len(connections) :
                                         hstate[connections[k].val] = "open"}}
            /\ connections' = SelectSeq(connections, LAMBDA e : e.key \notin ev'.set)
            /\ bluetoothConnections' = bluetoothConnections
            /\ \E k \in TimersOf(timers', "probe") : timers'[k].at = now + 10000]_vars

C16_Witness ==
    /\ ev.op = "probe"
    /\ ev.set = {"peerB"}
    /\ ev.pings = {"peerB", "peerC"}
    /\ RegKeys(connections) = {"peerC"}
    /\ now = 22000

(***************************************************************************)
(* C17  At most once per connection, no retry: within one broadcast a send *)
(* of the message is started at most once on each connection, and after a  *)
(* send failure on a connection, a failure part-way through a segmented    *)
(* message included, nothing further of that message is sent on it.  Of    *)
(* two records of the broadcast on one connection the first is the start   *)
(* of the send and the second its failure; a write that has thrown adds no *)
(* frame.                                                                  *)
(***************************************************************************)
C17_AtMostOnceNoRetry ==
    /\ [](\A i, j \in 1..Len(bc.wire) :
             (i < j /\ bc.wire[i].conn = bc.wire[j].conn)
                 => (bc.wire[i].what = "send" /\ bc.wire[j].what = "failed"))
    /\ [][(wpc = "thrown") => (Len(frames') <= Len(frames))]_vars

\* the write on the second connection of the broadcast has failed at the
\* second frame of the message, after a failure on the first connection
C17_Witness ==
    /\ bc.pc = "btwrite"
    /\ wpc = "thrown"
    /\ Len(frames) = 2
    /\ Len(bc.wire) >= 3
    /\ \E i \in 1..Len(bc.wire) : bc.wire[i].what = "failed"

(***************************************************************************)
(* C18  An emergency alert is rendered locally, with the audible alert,    *)
(* regardless of delivery outcome and without waiting on the outcome of    *)
(* the sends: while a constrained write of the alert is outstanding the    *)
(* alert is already on the screen.                                         *)
(***************************************************************************)
C18_RenderDoesNotWait ==
    (bc.type = "emergency" /\ bc.pc = "btwrite") => RenderedLocally

(***************************************************************************)
(* C19  A throwing send or a malformed inbound payload never propagates    *)
(* out of the handler that met it and never removes another connection:    *)
(* no handler ends with an exception, and the only registry entries a      *)
(* handler removes are those of the connections whose send failed.         *)
(***************************************************************************)
C19_FailuresRecoveredLocally ==
    [][/\ "uncaught" \notin ev'.set
       /\ (RegKeys(connections) \ RegKeys(connections')) \subseteq ev'.set
       /\ RegKeys(bluetoothConnections) \subseteq RegKeys(bluetoothConnections')]_vars

(***************************************************************************)
(* C20  The geolocation fetch never blocks message send: once              *)
(* sendEmergencyAlert waits for the location, having found at least one    *)
(* connection, the fanout of the emergency message eventually takes place, *)
(* whatever the geolocation collaborator does.                             *)
(***************************************************************************)
C20_FanoutEventually ==
    (bc.type = "emergency" /\ bc.pc = "loc") ~> (bc.pc \in {"btwrite", "done"})

(***************************************************************************)
(* C21  POST /api/emergencies stores and returns a record whose id,        *)
(* timestamp and status are the server's (status "pending"), whatever the  *)
(* request body carries.                                                   *)
(***************************************************************************)
C21_ServerAssignsFields ==
    [][(req'.op = "post" /\ Len(emergencies') > Len(emergencies))
          => /\ res'.code = 201
             /\ res'.body = << emergencies'[1] >>
             /\ emergencies'[1].id = serverNow
             /\ emergencies'[1].timestamp = serverNow
             /\ emergencies'[1].status = "pending"]_vars

(***************************************************************************)
(* C22  GET /api/emergencies lists every stored record newest first: after *)
(* any POSTs and PUTs the list returned holds each created record once, in *)
(* reverse order of creation (a PUT changes the status only).              *)
(***************************************************************************)
Created(e) == [id |-> e.id, timestamp |-> e.timestamp]

NewestFirst(list) ==
    /\ Len(list) = Len(created)
    /\ \A i \in 1..Len(list) : Created(list[i]) = Created(created[Len(created) + 1 - i])

C22_ListNewestFirst ==
    (req.op = "get") => (res.code = 200 /\ NewestFirst(res.body))

\* two records created at different times, the older one updated since, listed
C22_Witness ==
    /\ req.op = "get"
    /\ Len(res.body) = 2
    /\ res.body[1].timestamp > res.body[2].timestamp
    /\ res.body[2].status = "resolved"

(***************************************************************************)
(* C23  PUT /api/emergencies/:id with an id matching no stored record      *)
(* answers 404 and leaves the list unchanged; with an id matching a stored *)
(* record it sets the status of the first such record to the requested     *)
(* value, leaves the rest unchanged, and returns the updated record.       *)
(***************************************************************************)
Matching(list, param) == {i \in 1..Len(list) : param.num /\ list[i].id = param.v}

C23_PutUpdatesOr404 ==
    [][(req'.op = "put" /\ (req' # req \/ emergencies' # emergencies \/ res' # res))
          => LET m == Matching(emergencies, req'.id)
             IN IF m = {}
                THEN res'.code = 404 /\ emergencies' = emergencies
                ELSE \E i \in m :
                        /\ \A j \in m : i <= j
                        /\ emergencies' =
                              [emergencies EXCEPT ![i].status = RequestedStatus(req'.body)]
                        /\ res'.code = 200
                        /\ res'.body = << emergencies'[i] >>]_vars

\* a PUT has set the status of the older of two stored records
C23_Witness ==
    /\ req.op = "put"
    /\ res.code = 200
    /\ Len(emergencies) = 2
    /\ emergencies[2].status = "resolved"
    /\ res.body = << emergencies[2] >>

(***************************************************************************)
(* C24  Registry insertion happens when the transport opens and is not     *)
(* gated by the handshake: the open handler of a direct connection, and    *)
(* the step in which the notifications of a constrained device are         *)
(* started, put the connection in the registry and in getTotalConnections, *)
(* and a message sent right after, before anything was received, goes to   *)
(* it.                                                                     *)
(***************************************************************************)
C24_InsertionAtOpen ==
    [][/\ (ev'.op = "open")
            => /\ RegHas(connections', ev'.key)
               /\ RegGet(connections', ev'.key) = ev'.h
               /\ getTotalConnections' =
                     getTotalConnections + (IF RegHas(connections, ev'.key) THEN 0 ELSE 1)
       /\ (ev'.op = "startNotifications" /\ "bluetooth-handshake" \in ev'.set)
            => /\ RegHas(bluetoothConnections', ev'.key)
               /\ getTotalConnections' =
                     getTotalConnections + (IF RegHas(bluetoothConnections, ev'.key) THEN 0 ELSE 1)
       /\ (ev.op = "open" /\ ev'.op = "sendMessage" /\ ev'.key # "")
            => /\ <<"direct", ev.key, ev.h>> \in attempted'
               /\ \E i \in 1..Len(bc'.wire) :
                     bc'.wire[i] = OnWire(<<"direct", ev.key, ev.h>>, "send")
       /\ (ev.op = "startNotifications" /\ "bluetooth-handshake" \in ev.set
              /\ ev'.op = "sendMessage" /\ ev'.key # "")
            => /\ <<"bluetooth", ev.key, "bluetooth">> \in present'
               /\ bc'.pc = "btwrite"]_vars

\* a message is being sent right after a direct connection opened, with a
\* constrained device registered as well
C24_Witness ==
    /\ ev.op = "sendMessage"
    /\ bc.pc = "btwrite"
    /\ Len(bc.wire) = 2
    /\ bc.wire[1].conn[1] = "direct"
    /\ bc.reported = 2

(***************************************************************************)
(* C25  A multi-frame message sent over the constrained transport is       *)
(* received correctly when its frames are delivered in order and without   *)
(* loss: once every frame of a fulfilled multi-frame call has arrived, the *)
(* receiver has handed the message that was segmented to the application.  *)
(***************************************************************************)
C25_MultiFrameReceived ==
    (/\ wpc = "done"
     /\ Len(frames) > 1
     /\ delivered = Len(frames)
     /\ JSONParse(wmsg).type \in {"message", "emergency"})
        => (/\ handed # <<>>
            /\ handed[Len(handed)] = [type |-> JSONParse(wmsg).type,
                                      content |-> JSONParse(wmsg).content])

(***************************************************************************)
(* C26  On the constrained receive path every inbound frame is decoded on  *)
(* its own as a complete message: what is handed on depends on that frame  *)
(* alone; a frame that fails to decode is logged and dropped, changes      *)
(* neither registry and is not displayed; and a complete message arriving  *)
(* in one frame is handed on whatever was dropped before it.               *)
(***************************************************************************)
C26_FramesDecodedAlone ==
    /\ []((wpc = "done" /\ Len(frames) = 1 /\ delivered = 1
             /\ JSONParse(wmsg).type \in {"message", "emergency"})
            => (/\ handed # <<>>
                /\ handed[Len(handed)] = [type |-> JSONParse(wmsg).type,
                                          content |-> JSONParse(wmsg).content]))
    /\ [][(delivered' = delivered + 1)
            => /\ handed' =
                     (IF /\ JSONParse(frames[delivered']).ok
                         /\ JSONParse(frames[delivered']).type \in {"message", "emergency"}
                      THEN Append(handed, [type |-> JSONParse(frames[delivered']).type,
                                           content |-> JSONParse(frames[delivered']).content])
                      ELSE handed)
               /\ (~JSONParse(frames[delivered']).ok) => (dropped' = dropped + 1)
               /\ UNCHANGED <<connections, bluetoothConnections>>]_vars

\* the chunks of a first call were dropped, and the single frame of the call
\* after it was handed on
C26_Witness ==
    /\ calls = 1
    /\ dropped >= 2
    /\ wpc = "done"
    /\ Len(frames) = 1
    /\ delivered = 1
    /\ Len(handed) = 1

(***************************************************************************)
(* C27  Generic fallback: when the walk of a device without the named      *)
(* service has gone through, an entry of kind 'bluetooth-generic' is       *)
(* registered for the device if and only if a writable characteristic was  *)
(* found; receipt is set up on a notifying characteristic when the device  *)
(* has one; and without a writable characteristic nothing is registered    *)
(* and nothing is thrown.                                                  *)
(***************************************************************************)
C27_GenericFallback ==
    [][(ev'.op = "setupGenericBluetoothConnection")
          => /\ "uncaught" \notin ev'.set
             /\ ("writable" \in ev'.set)
                  => /\ RegHas(bluetoothConnections', ev'.key)
                     /\ RegGet(bluetoothConnections', ev'.key) = "bluetooth-generic"
             /\ ("writable" \notin ev'.set)
                  => bluetoothConnections' = bluetoothConnections
             /\ ("writable" \in ev'.set /\ "notify" \in ev'.set)
                  => btpc'[ev'.key] = "genNotif"]_vars

(***************************************************************************)
(* C28  The two registries are independent: a step that changes one leaves *)
(* the other as it was.  The same remote device may be in both, and then   *)
(* getTotalConnections counts it twice and a broadcast that finds it in    *)
(* both, and that it stays in, sends to it once over each transport.       *)
(***************************************************************************)
SendsOn(c) == {i \in 1..Len(bc.wire) : bc.wire[i] = OnWire(c, "send")}

C28_RegistriesIndependent ==
    /\ [](getTotalConnections =
             Cardinality(RegKeys(connections)) + Cardinality(RegKeys(bluetoothConnections)))
    /\ []((bc.pc = "done") => \A c \in present : Cardinality(SendsOn(c)) = 1)
    /\ [][((connections' # connections) => (bluetoothConnections' = bluetoothConnections))
           /\ ((bluetoothConnections' # bluetoothConnections) => (connections' = connections))]_vars

\* the remote device is in both registries, was counted twice, and a
\* broadcast has sent to it over each transport
C28_Witness ==
    /\ bc.pc = "done"
    /\ bc.reported = 2
    /\ RegHas(connections, "peerB")
    /\ RegHas(bluetoothConnections, "dev1")
    /\ Cardinality(present) = 2
    /\ Len(bc.wire) = 2
\* C29: per transport kind the controller is a state machine in which a scan
\* starts only from idle, so the stagger, the fallback timers, the settings
\* and the user never have two scans of one kind in progress at once
C29_OneScanPerKind ==
    /\ [](\A kind \in ScanKinds : Cardinality(InProgress(kind)) <= 1)
    /\ [][\A k \in (Len(scanLog) + 1)..Len(scanLog') :
             InProgress(scanLog'[k].kind) = {}]_vars

\* what a handler that receives leaves alone when the payload is informational
Quiet ==
    /\ connections' = connections
    /\ bluetoothConnections' = bluetoothConnections
    /\ "displayed" \notin ev'.set

\* C30: the receipt of a handshake, and likewise of a ping or of a payload of
\* an unknown kind, on either transport inserts nothing into and removes
\* nothing from either registry, and nothing is displayed
C30_HandshakeInformational ==
    [][(\A h \in Handles : \A p \in {"handshake", "ping", "other"} :
            (ConnData(h, p) => Quiet))
       /\ (\A d \in Devices : \A p \in {"bluetooth-handshake", "ping", "other"} :
            (CharacteristicValueChanged(d, p) => Quiet))]_vars

\* a payload has arrived on an open direct connection while both registries
\* hold an entry, and was neither displayed nor thrown on
C30_Witness ==
    /\ ev.op = "data"
    /\ ev.set = {}
    /\ RegHas(connections, ev.key)
    /\ bluetoothConnections # <<>>

\* C31: an explicit disconnect of a registered connection closes its handle
\* and removes that key from its registry and nothing else from either; an
\* explicit disconnect of a key that is not registered changes nothing
C31_ExplicitDisconnect ==
    [][(\A p \in RemotePeers :
            (disconnectPeer(p) =>
                IF RegHas(connections, p)
                THEN /\ hstate'[RegGet(connections, p)] = "closed"
                     /\ connections' = RegDelete(connections, p)
                     /\ bluetoothConnections' = bluetoothConnections
                ELSE UNCHANGED connVars))
       /\ (\A d \in Devices :
            (disconnectBluetoothDevice(d) =>
                IF RegHas(bluetoothConnections, d)
                THEN /\ ~gatt'[d]
                     /\ bluetoothConnections' = RegDelete(bluetoothConnections, d)
                     /\ connections' = connections
                ELSE UNCHANGED connVars))]_vars

\* the user has disconnected a peer that was registered, and the entries of
\* another peer and of a device are still there
C31_Witness ==
    /\ ev.op = "disconnectPeer"
    /\ \E h \in Handles : hpeer[h] = ev.key /\ hstate[h] = "closed" /\ torn[h]
    /\ ~RegHas(connections, ev.key)
    /\ connections # <<>>
    /\ bluetoothConnections # <<>>

\* frames of the two calls alternate, no write having been rejected: a frame
\* of one call lies between two frames of the other
Interleaved ==
    \E i, j, k \in 1..Len(frames) :
        /\ wpc # "thrown"
        /\ other.pc # "thrown"
        /\ i < j
        /\ j < k
        /\ (i \in other.at) = (k \in other.at)
        /\ (j \in other.at) # (i \in other.at)

\* C32: the frames of two logical messages are never interleaved on one
\* constrained connection: when two sends on a characteristic overlap in
\* time, all frames of one are written before any frame of the other
C32_NoInterleaving == [](~Interleaved)

\* the entries of the direct registry that belong to other handles than h
\* and whose connection is open
OpenEntriesBeside(h) ==
    {q \in RegKeys(connections) :
        RegGet(connections, q) # h /\ hstate[RegGet(connections, q)] = "open"}

\* C33: a close or error event of one direct connection handle removes only
\* the entry that was inserted for that handle, never the entry of another
\* connection to the same peer that is still open
C33_CloseRemovesOwnEntry ==
    [][\A h \in Handles :
          ((ConnClose(h) \/ ConnError(h)) =>
               \A q \in OpenEntriesBeside(h) :
                   RegHas(connections', q)
                   /\ RegGet(connections', q) = RegGet(connections, q))]_vars

\* C34: a broadcast sends to exactly the connections that were registered
\* when it was invoked, whatever is opened or closed while it is suspended
C34_SendsToInvocationSet == (bc.pc = "done") => (attempted = bc.invoked)

\* the steps in which a constrained connect attempt can reach a catch
ConnectSteps ==
    {"gattConnect", "getCharacteristic", "startNotifications", "sendBluetoothHandshake",
     "setupGenericBluetoothConnection", "genericStartNotifications"}

\* C35: when a constrained connect attempt ends by reporting failure to the
\* user, no entry for the device remains in the constrained registry
C35_FailedConnectLeavesNoEntry ==
    [][(ev'.op \in ConnectSteps /\ "error" \in ev'.set)
          => ~RegHas(bluetoothConnections', ev'.key)]_vars

\* C36: sendFile sends the file message to every direct connection and a
\* notification without data and with the same id to every constrained one,
\* a failing send stops no other, and the receiver of either displays it
C36_FileToEveryConnection ==
    (bc.type = "file" /\ bc.pc = "done") =>
        /\ present \subseteq attempted
        /\ \A c \in attempted :
              /\ FileOnTransport(c[1]).id = FileOnTransport("direct").id
              /\ FileOnTransport(c[1]).data = (c[1] = "direct")
              /\ "displayed" \in ReceivedOn(c[1], FileOnTransport(c[1]).type)

\* C37: every stored record has an id distinct from the id of every other
\* stored record, after any sequence of POST requests
C37_IdsDistinct ==
    \A i, j \in 1..Len(emergencies) : (i # j) => (emergencies[i].id # emergencies[j].id)

\* C38: a successful PUT changes only the status field of one matching
\* record: the number of records, their order, the other fields of that
\* record and every other record are unchanged
C38_PutChangesStatusOnly ==
    [][\A param \in IdParams, body \in StatusBodies :
          ((PutEmergency(param, body) /\ res'.code = 200) =>
               /\ Len(emergencies') = Len(emergencies)
               /\ \E index \in 1..Len(emergencies) :
                     /\ LooseEquals(emergencies[index].id, param)
                     /\ emergencies'[index].id = emergencies[index].id
                     /\ emergencies'[index].timestamp = emergencies[index].timestamp
                     /\ \A i \in 1..Len(emergencies) :
                           (i # index) => (emergencies'[i] = emergencies[i]))]_vars

\* a PUT has set the status of the older of two stored records, and the
\* newer one is as it was created
C38_Witness ==
    /\ req.op = "put"
    /\ res.code = 200
    /\ Len(emergencies) = 2
    /\ emergencies[2].status = "resolved"
    /\ emergencies[1].status = "pending"
    /\ emergencies[1].id # emergencies[2].id


\* C39: connectToPeer invoked with a blank remote peer id, or while this.peer
\* is absent, starts no connection attempt, schedules no fallback scan, leaves
\* both registries unchanged and only issues a warning
C39_RefusedConnectDoesNothing ==
    [][(\A text \in PeerIdInputs, throws \in BOOLEAN :
          (connectToPeerInput(text, throws) /\ (Trim(text) = <<>> \/ ~thisPeer))
            => (/\ UNCHANGED <<hstate, hpeer, connections, bluetoothConnections>>
                /\ UNCHANGED <<timers, scanLog>>
                /\ ev'.op = "connectToPeer"
                /\ ev'.set = {"warning"}))]_vars

C39_Witness ==
    /\ ev.op = "connectToPeer"
    /\ ev.set = {"warning"}
    /\ ev.key = "WebRTC not available, try Bluetooth connection"
    /\ ~thisPeer
    /\ bluetoothConnections # <<>>

====
